---- MODULE Spec2Model ----
(***************************************************************************)
(* ETF performance tracker: the growth calculation engine                  *)
(* (calculators.py, etf_data.py, etf_data_fixed.py) and the pages that     *)
(* call it (app.py, app_fixed.py).                                         *)
(*                                                                         *)
(* Numbers.  The code computes in IEEE double precision, mixing numpy       *)
(* float64 (prices read from the DataFrame: division by zero gives inf or  *)
(* nan and never raises) with Python floats (years, expense ratio:         *)
(* division by zero raises ZeroDivisionError).  A number is modelled as a   *)
(* record [k, v]:                                                          *)
(*    k = "fin"  a finite value, v its value in units of 1/SCALE,           *)
(*               rounded to the nearest unit after every operation;        *)
(*    k = "inf"  an infinity, v = 1 or -1 its sign;                         *)
(*    k = "nan"  not-a-number;                                             *)
(*    k = "exc"  the evaluation raised a Python exception.                  *)
(* Dates are day numbers, day 0 being 2020-01-01.  The dates of the series  *)
(* lie a whole number of 4-year spans (1461 days = 4 * 365.25) apart, so    *)
(* that days / 365.25 is a whole number of years and the powers x ** years  *)
(* and x ** (1 / years) are integer powers and integer roots; the one       *)
(* exception is the series from 2020-01-01 to 2025-01-01 (day 1827), whose  *)
(* 5.0021 years are handled by interpolation.                               *)
(***************************************************************************)
EXTENDS Integers, Sequences, FiniteSets, TLC

VARIABLES
    gw,     \* what the gateway answers to the first and the second Ticker of a run
    op,     \* the operation the run has served, "idle" before it
    req,    \* the arguments of the operation
    res,    \* what the operation returned or the page shows
    cache,  \* the entry st.cache_data keeps for load_etf_data of app.py
    now,    \* the wall clock
    session \* st.session_state of the browser session

vars == <<gw, op, req, res, cache, now, session>>

(* what a run of app.py leaves alone when it does not load the ranking *)
kept == <<cache, now>>

-----------------------------------------------------------------------------
(* Bounds of the model *)

MaxLen == 2

(* get_etf_data of app_fixed.py refuses a history of fewer rows *)
MinRows == 10

(* _create_growth_chart_data samples a history of more rows *)
MaxPoints == 60

(* Fixed-point resolution of the finite values: four decimal digits *)
SCALE == 10 * 10 * 10 * 10

Dates == {0, 1461}

Prices == {0, 100, 200}

Principals == {-1000, 0, 1000}

-----------------------------------------------------------------------------
(* Floating point values *)

Fin(n) == [k |-> "fin", v |-> n]

Inf(s) == [k |-> "inf", v |-> s]

NaN == [k |-> "nan", v |-> 0]

Exc == [k |-> "exc", v |-> 0]

FromInt(i) == Fin(i * SCALE)

Abs(n) == IF n < 0 THEN -n ELSE n

Sgn(n) == IF n < 0 THEN -1 ELSE 1

IsFin(a) == a.k = "fin"

IsExc(a) == a.k = "exc"

SignOf(a) == IF a.k = "fin" THEN Sgn(a.v) ELSE a.v

(* a * b / SCALE on scaled integers, rounded to the nearest unit, without a
   32-bit overflow of the intermediate product *)
FixMul(a, b) ==
    LET x == Abs(a)
        y == Abs(b)
        xh == x \div SCALE
        xl == x % SCALE
        yh == y \div SCALE
        yl == y % SCALE
    IN  Sgn(a) * Sgn(b) * (xh * yh * SCALE + xh * yl + xl * yh + (xl * yl + SCALE \div 2) \div SCALE)

(* a / b in units of 1/SCALE by long division: four decimal digits, rounded
   to the nearest unit by the fifth *)
FixDiv(a, b) ==
    LET x == Abs(a)
        y == Abs(b)
        q0 == x \div y
        r0 == x % y
        d1 == (r0 * 10) \div y
        r1 == (r0 * 10) % y
        d2 == (r1 * 10) \div y
        r2 == (r1 * 10) % y
        d3 == (r2 * 10) \div y
        r3 == (r2 * 10) % y
        d4 == (r3 * 10) \div y
        r4 == (r3 * 10) % y
        d5 == (r4 * 10) \div y
    IN  Sgn(a) * Sgn(b) *
        (q0 * SCALE + d1 * 1000 + d2 * 100 + d3 * 10 + d4 + (IF d5 >= 5 THEN 1 ELSE 0))

NumNeg(a) ==
    CASE a.k = "fin" -> Fin(-a.v)
      [] a.k = "inf" -> Inf(-a.v)
      [] OTHER -> a

NumAdd(a, b) ==
    CASE a.k = "exc" \/ b.k = "exc" -> Exc
      [] a.k = "nan" \/ b.k = "nan" -> NaN
      [] a.k = "inf" /\ b.k = "inf" -> IF a.v = b.v THEN a ELSE NaN
      [] a.k = "inf" -> a
      [] b.k = "inf" -> b
      [] OTHER -> Fin(a.v + b.v)

NumSub(a, b) == NumAdd(a, NumNeg(b))

NumMul(a, b) ==
    CASE a.k = "exc" \/ b.k = "exc" -> Exc
      [] a.k = "nan" \/ b.k = "nan" -> NaN
      [] a.k = "inf" \/ b.k = "inf" ->
            IF (a.k = "fin" /\ a.v = 0) \/ (b.k = "fin" /\ b.v = 0)
            THEN NaN
            ELSE Inf(SignOf(a) * SignOf(b))
      [] OTHER -> Fin(FixMul(a.v, b.v))

(* numpy float64 division: x / 0 is inf (nan for 0 / 0), with a warning and
   no exception *)
NpDiv(a, b) ==
    CASE a.k = "exc" \/ b.k = "exc" -> Exc
      [] a.k = "nan" \/ b.k = "nan" -> NaN
      [] a.k = "inf" /\ b.k = "inf" -> NaN
      [] a.k = "inf" -> Inf(a.v * SignOf(b))
      [] b.k = "inf" -> Fin(0)
      [] b.v = 0 -> IF a.v = 0 THEN NaN ELSE Inf(Sgn(a.v))
      [] OTHER -> Fin(FixDiv(a.v, b.v))

(* Python float division: x / 0 raises ZeroDivisionError *)
PyDiv(a, b) ==
    IF b.k = "fin" /\ b.v = 0 /\ a.k # "exc" THEN Exc ELSE NpDiv(a, b)

(* IEEE comparisons: every comparison with nan is false *)
NumGt(a, b) ==
    CASE a.k = "nan" \/ b.k = "nan" -> FALSE
      [] a.k = "inf" /\ b.k = "inf" -> a.v > b.v
      [] a.k = "inf" -> a.v = 1
      [] b.k = "inf" -> b.v = -1
      [] OTHER -> a.v > b.v

NumEq(a, b) == a.k # "nan" /\ b.k # "nan" /\ a = b

-----------------------------------------------------------------------------
(* Powers *)

RECURSIVE PowLeq(_, _, _, _)
(* acc * r ** n <= x; for r >= 1 the product only grows, and the evaluation
   stops as soon as it exceeds x *)
PowLeq(acc, r, n, x) ==
    IF n = 0 THEN acc <= x
    ELSE IF r >= SCALE /\ acc > x THEN FALSE
    ELSE PowLeq(FixMul(acc, r), r, n - 1, x)

RECURSIVE RootSearch(_, _, _, _)
(* the largest r in lo..hi with r ** n <= x, by bisection (lo ** n <= x) *)
RootSearch(lo, hi, n, x) ==
    IF lo >= hi THEN lo
    ELSE LET mid == (lo + hi + 1) \div 2
         IN  IF PowLeq(SCALE, mid, n, x)
             THEN RootSearch(mid, hi, n, x)
             ELSE RootSearch(lo, mid - 1, n, x)

(* x ** (1 / n) for a whole n > 0 and x >= 0, on scaled integers *)
FixRoot(x, n) ==
    IF x = 0 THEN 0 ELSE RootSearch(0, IF x > SCALE THEN x ELSE SCALE, n, x)

(* YearsOf counting whole years of 365 days *)
YearsOfCalendar(days) == Fin((days \div 365) * SCALE)

(* days / 365.25, a Python float (calculators.py line 33) *)
YearsOf(days) == Fin(FixDiv(days * SCALE, (36525 * SCALE) \div 100))

(* Multipliers.  A power (1 - expense_ratio) ** years multiplies amounts of
   thousands: it is kept to eight decimal places, in units of 1/FINE, so that
   the product is right to the cent. *)
FINE == SCALE * SCALE

Fine(m) == [k |-> "fine", v |-> m]

(* Python's power of a negative float to a fractional exponent: a complex
   number.  No input of the model produces one. *)
Cpx == [k |-> "cpx", v |-> 0]

(* a * c / FINE, rounded: the product of two multipliers, or of an amount in
   units of 1/SCALE and a multiplier *)
FineMul(a, c) ==
    LET x == Abs(a)
        y == Abs(c)
        xh == x \div SCALE
        xl == x % SCALE
        yh == y \div SCALE
        yl == y % SCALE
    IN  Sgn(a) * Sgn(c) *
        (xh * yh + (xh * yl + xl * yh + (xl * yl + SCALE \div 2) \div SCALE + SCALE \div 2)
                        \div SCALE)

(* 1 / b as a multiplier, b # 0 in units of 1/SCALE *)
FineRecip(b) ==
    LET y == Abs(b)
    IN  Sgn(b) * ((FINE \div y) * SCALE + ((FINE % y) * SCALE + y \div 2) \div y)

RECURSIVE FinePowInt(_, _)
(* c ** n for a multiplier c and a whole n >= 0 *)
FinePowInt(c, n) == IF n = 0 THEN FINE ELSE FineMul(c, FinePowInt(c, n - 1))

(* c ** y for a multiplier c and y >= 0 in units of 1/SCALE: the whole part
   of y by repeated multiplication, the fractional part f by interpolation
   between c ** 0 and c ** 1 (in the series of the growth computation f is 0
   or 0.0021 and the error below 1/FINE * 10; the daily series of the chart
   calls have larger fractions, and nothing is stated of their net values) *)
FinePow(c, y) ==
    IF y % SCALE = 0 THEN FinePowInt(c, y \div SCALE)
    ELSE FineMul(FinePowInt(c, y \div SCALE),
                 FINE + ((c - FINE) \div SCALE) * (y % SCALE)
                      + (((c - FINE) % SCALE) * (y % SCALE)) \div SCALE)

(* x * m for a number x and the value m of a power *)
ScaleBy(x, m) ==
    CASE m.k = "cpx" -> Cpx
      [] m.k = "fine" /\ x.k = "fin" -> Fin(FineMul(x.v, m.v))
      [] m.k = "fine" -> NumMul(x, Fin(Sgn(m.v)))
      [] OTHER -> NumMul(x, m)

(* PyPow charging the fee once for the whole period: 1 - (1 - b) * y *)
PyPowSimple(b, y) ==
    IF b.k = "exc" \/ y.k = "exc" THEN Exc
    ELSE Fine(FINE - (SCALE - b.v) * y.v)

(* b ** y of two Python floats: 0.0 to a negative power raises
   ZeroDivisionError; a negative base to a whole power stays real, to a
   fractional power it is complex *)
PyPow(b, y) ==
    CASE b.k = "exc" \/ y.k = "exc" -> Exc
      [] b.v < 0 /\ y.v % SCALE # 0 -> Cpx
      [] y.v >= 0 -> Fine(FinePow(b.v * SCALE, y.v))
      [] b.v = 0 -> Exc
      [] OTHER -> Fine(FinePow(FineRecip(b.v), -y.v))

(* b ** y of numpy: b a float64 (scalar or column); no exception, 0.0 to a
   negative power is inf, a negative base to a fractional power is nan *)
NpPow(b, y) ==
    CASE b.k = "exc" \/ y.k = "exc" -> Exc
      [] y.v = 0 -> Fine(FINE)
      [] b.k = "nan" -> NaN
      [] b.k = "inf" ->
            IF y.v > 0 THEN Inf(IF (y.v \div SCALE) % 2 = 0 THEN 1 ELSE b.v) ELSE Fin(0)
      [] b.v < 0 /\ y.v % SCALE # 0 -> NaN
      [] y.v > 0 -> Fine(FinePow(b.v * SCALE, y.v))
      [] b.v = 0 -> Inf(1)
      [] OTHER -> Fine(FinePow(FineRecip(b.v), -y.v))

(* x ** (1 / y) for x >= 0 and y >= 1 in units of 1/SCALE: the root of the
   whole part n of y, moved toward the root of n + 1 by the fractional part
   f of y (1 / y lies f (n + 1) / y of the way from 1 / n to 1 / (n + 1)) *)
YearRoot(x, y) ==
    LET n == y \div SCALE
        f == y % SCALE
        r == FixRoot(x, n)
    IN  IF f = 0 THEN r
        ELSE r + FixMul(FixDiv(f * (n + 1), y), FixRoot(x, n + 1) - r)

(* RootPow with 1 / years divided as numpy divides: 1 / 0 is inf and nothing
   is raised, and b ** inf is inf, 1 or 0 *)
RootPowNumpyYears(b, years) ==
    LET r == YearRoot(b.v, Abs(years.v))
    IN  CASE b.k = "exc" \/ years.k = "exc" -> Exc
          [] b.k = "nan" -> NaN
          [] years.v = 0 -> IF b.k = "inf" \/ b.v > SCALE THEN Inf(1)
                            ELSE IF b.v = SCALE THEN Fin(SCALE) ELSE Fin(0)
          [] b.k = "inf" -> IF years.v > 0 THEN Inf(1) ELSE Fin(0)
          [] b.v < 0 -> NaN
          [] years.v > 0 -> Fin(r)
          [] r = 0 -> Inf(1)
          [] OTHER -> Fin(FixDiv(SCALE, r))

(* b ** (1 / years): b a numpy float64, years a Python float.  1 / years
   raises ZeroDivisionError for years = 0; a negative base to a fractional
   power is nan *)
RootPow(b, years) ==
    LET r == YearRoot(b.v, Abs(years.v))
    IN  CASE b.k = "exc" \/ years.k = "exc" -> Exc
          [] years.v = 0 -> Exc
          [] b.k = "nan" -> NaN
          [] b.k = "inf" -> IF years.v > 0 THEN Inf(1) ELSE Fin(0)
          [] b.v < 0 -> NaN
          [] years.v > 0 -> Fin(r)
          [] r = 0 -> Inf(1)
          [] OTHER -> Fin(FixDiv(SCALE, r))

-----------------------------------------------------------------------------
(* The market data gateway (yfinance): what ticker.history and ticker.info
   answer.  Either call may raise; a metadata key may be absent, or present
   with a null value *)

Obs == [d : Dates, p : Prices]

RECURSIVE SeqsUpTo(_, _)
SeqsUpTo(S, n) ==
    IF n = 0 THEN {<<>>}
    ELSE LET shorter == SeqsUpTo(S, n - 1)
         IN  shorter \cup {Append(q, x) : q \in {t \in shorter : Len(t) = n - 1}, x \in S}

(* a series of MinRows rows: first and last rows chosen, the rows between
   them repeating the first *)
LongSeries(f, l) == [i \in 1..MinRows |-> IF i = MinRows THEN l ELSE f]

(* the series from 2020-01-01 (day 0) at 100 to 2025-01-01 (day 1827) at
   200, as two observations and as MinRows rows *)
ScenarioSeries ==
    { <<[d |-> 0, p |-> 100], [d |-> 1827, p |-> 200]>>,
      LongSeries([d |-> 0, p |-> 100], [d |-> 1827, p |-> 200]) }

SeriesSet ==
    SeqsUpTo(Obs, MaxLen) \cup {LongSeries(f, l) : f, l \in Obs} \cup ScenarioSeries

HistRaises == [exc |-> TRUE, rows |-> <<>>]

HistResponses == {HistRaises} \cup {[exc |-> FALSE, rows |-> q] : q \in SeriesSet}

Absent == [st |-> "absent", v |-> 0]

Null == [st |-> "null", v |-> 0]

Val(x) == [st |-> "val", v |-> x]

(* annualReportExpenseRatio: -1 %, 0, 1 %, 150 % (as fractions, scaled) *)
ExpenseFields == {Absent, Null, Val(-100), Val(0), Val(100), Val(15000)}

(* the expense ratios met with the series of ScenarioSeries: none stated,
   0, 1 % *)
ScenarioRatios == {Absent, Val(0), Val(100)}

(* totalAssets: 0 or 5.2 billion (in units of 100 million) *)
AumFields == {Absent, Null, Val(0), Val(52)}

(* longName, fundInceptionDate: stated or not *)
OptFields == {Absent, Val(1)}

InfoRaises ==
    [exc |-> TRUE, er |-> Absent, aum |-> Absent, name |-> Absent, inception |-> Absent]

(* the metadata a growth computation reads: the expense ratio alone *)
GrowthInfos ==
    {InfoRaises} \cup
    {[exc |-> FALSE, er |-> e, aum |-> Absent, name |-> Absent, inception |-> Absent] :
        e \in ExpenseFields}

Infos ==
    {InfoRaises} \cup
    {[exc |-> FALSE, er |-> e, aum |-> a, name |-> n, inception |-> i] :
        e \in ExpenseFields, a \in AumFields, n \in OptFields, i \in OptFields}

(* The symbols of a single-ticker request: SPY is in etf_list and in the
   global database, VOO in the global database alone *)
Symbols == {"SPY", "VOO"}

(* the catalogs a ranking iterates, in the order of their dict literals *)
EtfListOrder ==
    <<"SPY", "QQQ", "VTI", "IWM", "EFA", "EEM", "VNQ", "GLD", "TLT", "HYG">>

(* global_etf_database of etf_data_fixed.py: the countries USA and INDIA;
   dict.get(country, {}) for the others *)
GlobalEtfDatabase(country) ==
    CASE country = "USA" ->
            <<"SPY", "VOO", "IVV", "VTI", "QQQ", "VGT", "XLK", "IWM", "VB", "BND",
              "AGG", "TLT", "HYG", "VNQ", "GLD", "XLF", "XLE", "XLV", "VYM", "SCHD">>
      [] country = "INDIA" -> <<"INDA", "INDY", "EPI">>
      [] OTHER -> <<>>

(* GLOBAL_ETF_DATABASE of app_fixed.py: the countries USA and UK *)
GLOBAL_ETF_DATABASE(country) ==
    CASE country = "USA" ->
            <<"SPY", "VOO", "QQQ", "VTI", "IWM", "BND", "VNQ", "GLD", "XLK", "VYM">>
      [] country = "UK" -> <<"VUSA.L", "VWRL.L", "VUKE.L">>
      [] OTHER -> <<>>

SeqSet(q) == {q[i] : i \in 1..Len(q)}

EtfList == SeqSet(EtfListOrder)

(* the flattened catalogs (extended_etf_list, ALL_ETFS) *)
ExtendedEtfList ==
    SeqSet(GlobalEtfDatabase("USA")) \cup SeqSet(GlobalEtfDatabase("INDIA"))
        \cup SeqSet(GLOBAL_ETF_DATABASE("USA")) \cup SeqSet(GLOBAL_ETF_DATABASE("UK"))

(* dict.get(symbol, 'Unknown') on a catalog *)
CatalogName(catalog, symbol) ==
    IF symbol \in catalog THEN [src |-> "catalog", of |-> symbol]
    ELSE [src |-> "Unknown", of |-> symbol]

(* info.get('longName', fallback) *)
LongName(field, symbol, fallback) ==
    CASE field.st = "absent" -> fallback
      [] field.st = "null" -> [src |-> "None", of |-> symbol]
      [] OTHER -> [src |-> "longName", of |-> symbol]

(* info.get(key, default): the default only when the key is absent; a key
   present with a null value yields None *)
InfoGet(field, default) == IF field.st = "absent" THEN default ELSE field

-----------------------------------------------------------------------------
(* calculators.py *)

None == [kind |-> "none"]

IsNone(r) == r.kind = "none"

First(rows) == rows[1]

Last(rows) == rows[Len(rows)]

(* hist.iloc[::step] : rows 1, 1 + step, 1 + 2 step, ... *)
(* Stride starting at the last row of the first step *)
StrideFromStep(rows, step) ==
    [i \in 1..(Len(rows) \div step) |-> rows[i * step]]

Stride(rows, step) ==
    [i \in 1..((Len(rows) + step - 1) \div step) |-> rows[(i - 1) * step + 1]]

(* the frame given to _create_growth_chart_data after the call, were the
   columns added to it and not to a copy *)
FrameAfterChartInPlace(hist) ==
    [hist EXCEPT !.columns = @ \cup {"Gross_Portfolio_Value", "Net_Portfolio_Value"}]

(* the frame given to _create_growth_chart_data after the call: the columns
   are added to sampled_hist, a .copy() in both branches (lines 90 and 92) *)
FrameAfterChart(hist) == hist

(* _create_growth_chart_data: expense_ratio is a number here; on an empty
   frame sampled_hist.index[0] raises and the function returns None *)
CreateGrowthChartData(rows, initial_investment, first_price, expense_ratio) ==
    IF Len(rows) = 0 /\ NumGt(expense_ratio, Fin(0)) THEN None
    ELSE
    LET sample_interval ==
            IF Len(rows) \div MaxPoints > 1 THEN Len(rows) \div MaxPoints ELSE 1
        sampled == IF Len(rows) > MaxPoints THEN Stride(rows, sample_interval) ELSE rows
        start_date == sampled[1].d
        Gross(i) == NumMul(NpDiv(FromInt(sampled[i].p), first_price), initial_investment)
        Elapsed(i) == YearsOf(sampled[i].d - start_date)
        Net(i) ==
            IF NumGt(expense_ratio, Fin(0))
            THEN ScaleBy(Gross(i), NpPow(NumSub(Fin(SCALE), expense_ratio), Elapsed(i)))
            ELSE Gross(i)
    IN  [kind |-> "chart",
         points |-> [i \in 1..Len(sampled) |->
                        [Date |-> sampled[i].d,
                         Gross_Portfolio_Value |-> Gross(i),
                         Portfolio_Value |-> Net(i)]]]

(* calculate_investment_growth(symbol, initial_investment,
   include_expense_ratio) on the gateway's answers hist and info *)
CalculateInvestmentGrowth(hist, info, initial, include_expense_ratio) ==
    IF hist.exc \/ info.exc \/ Len(hist.rows) = 0 THEN None
    ELSE
    LET initial_investment == FromInt(initial)
        er_field == InfoGet(info.er, Val(50))
        er_none == er_field.st = "null"
        expense_ratio == Fin(er_field.v)
        first_price == FromInt(First(hist.rows).p)
        last_price == FromInt(Last(hist.rows).p)
        start_date == First(hist.rows).d
        end_date == Last(hist.rows).d
        years == YearsOf(end_date - start_date)
        price_multiplier == NpDiv(last_price, first_price)
        gross_current_value == NumMul(initial_investment, price_multiplier)
        gross_ratio == NpDiv(gross_current_value, initial_investment)
        gross_total_return == NumMul(NumSub(gross_ratio, Fin(SCALE)), FromInt(100))
        gross_cagr == NumMul(NumSub(RootPow(gross_ratio, years), Fin(SCALE)), FromInt(100))
        with_fees == include_expense_ratio /\ NumGt(expense_ratio, Fin(0))
        expense_multiplier == PyPow(NumSub(Fin(SCALE), expense_ratio), years)
        net_current_value ==
            IF with_fees THEN ScaleBy(gross_current_value, expense_multiplier)
            ELSE gross_current_value
        net_ratio == NpDiv(net_current_value, initial_investment)
        net_total_return ==
            IF with_fees THEN NumMul(NumSub(net_ratio, Fin(SCALE)), FromInt(100))
            ELSE gross_total_return
        net_cagr ==
            IF with_fees
            THEN NumMul(NumSub(RootPow(net_ratio, years), Fin(SCALE)), FromInt(100))
            ELSE gross_cagr
        total_fees ==
            IF with_fees THEN NumSub(gross_current_value, net_current_value) ELSE Fin(0)
        growth_data ==
            CreateGrowthChartData(hist.rows, initial_investment, first_price,
                                  IF include_expense_ratio THEN expense_ratio ELSE Fin(0))
    IN  IF er_none \/ IsExc(gross_cagr) \/ IsExc(net_current_value) \/ IsExc(net_cagr)
        THEN None
        ELSE [kind |-> "growth",
              initial_investment |-> initial_investment,
              gross_current_value |-> gross_current_value,
              net_current_value |-> net_current_value,
              current_value |-> net_current_value,
              gross_total_return |-> gross_total_return,
              net_total_return |-> net_total_return,
              total_return |-> net_total_return,
              gross_cagr |-> gross_cagr,
              net_cagr |-> net_cagr,
              cagr |-> net_cagr,
              expense_ratio |-> NumMul(expense_ratio, FromInt(100)),
              total_fees |-> total_fees,
              years |-> years,
              start_date |-> start_date,
              end_date |-> end_date,
              growth_data |-> growth_data]

(* quick_calculation(symbol, amount) *)
QuickCalculation(hist, amount) ==
    IF hist.exc \/ Len(hist.rows) = 0 THEN None
    ELSE
    LET first_price == FromInt(First(hist.rows).p)
        last_price == FromInt(Last(hist.rows).p)
    IN  [kind |-> "quick",
         current_value |-> NumMul(FromInt(amount), NpDiv(last_price, first_price)),
         multiplier |-> NpDiv(last_price, first_price)]

-----------------------------------------------------------------------------
(* etf_data.py and etf_data_fixed.py *)

(* round(x, 2) and round(x, 1): inf and nan pass through *)
RoundTo(x, unit) ==
    IF x.k # "fin" THEN x
    ELSE LET m == Abs(x.v)
             down == (m \div unit) * unit
             rest == m - down
             up == IF 2 * rest > unit \/ (2 * rest = unit /\ (m \div unit) % 2 = 1)
                   THEN down + unit ELSE down
         IN  Fin(Sgn(x.v) * up)

Round2(x) == RoundTo(x, SCALE \div 100)

Round1(x) == RoundTo(x, SCALE \div 10)

Round3(x) == RoundTo(x, SCALE \div 1000)

(* ETFAnalyzer.get_etf_info of etf_data.py *)
GetEtfInfo(symbol, info) ==
    IF info.exc THEN None
    ELSE [kind |-> "info",
          symbol |-> symbol,
          name |-> LongName(info.name, symbol, CatalogName(EtfList, symbol)),
          expense_ratio |-> InfoGet(info.er, Null),
          aum |-> InfoGet(info.aum, Null),
          inception_date |-> InfoGet(info.inception, Null)]

(* ETFAnalyzer.get_etf_info of etf_data_fixed.py: a table of defaults when
   ticker.info raises *)
GetEtfInfoFixed(symbol, info) ==
    IF info.exc
    THEN [kind |-> "info",
          symbol |-> symbol,
          name |-> CatalogName(ExtendedEtfList, symbol),
          expense_ratio |-> Val(50),
          aum |-> Val(0),
          inception_date |-> Null]
    ELSE [kind |-> "info",
          symbol |-> symbol,
          name |-> LongName(info.name, symbol, CatalogName(ExtendedEtfList, symbol)),
          expense_ratio |-> InfoGet(info.er, Val(50)),
          aum |-> InfoGet(info.aum, Val(0)),
          inception_date |-> InfoGet(info.inception, Null)]

(* the CAGR of a history of at least min_rows rows; years <= 0 is refused *)
CagrOf(hist, min_rows) ==
    IF hist.exc \/ Len(hist.rows) = 0 \/ Len(hist.rows) < min_rows THEN None
    ELSE
    LET first_price == FromInt(First(hist.rows).p)
        last_price == FromInt(Last(hist.rows).p)
        start_date == First(hist.rows).d
        years == YearsOf(Last(hist.rows).d - start_date)
        cagr == NumMul(NumSub(RootPow(NpDiv(last_price, first_price), years), Fin(SCALE)),
                       FromInt(100))
    IN  IF ~NumGt(years, Fin(0)) THEN None
        ELSE [kind |-> "cagr", cagr |-> cagr, inception_date |-> start_date, years |-> years]

(* ETFAnalyzer.calculate_cagr of etf_data.py *)
CalculateCagr(hist) == CagrOf(hist, 1)

(* ETFAnalyzer.calculate_cagr of etf_data_fixed.py *)
CalculateCagrFixed(hist) == CagrOf(hist, 2)

RECURSIVE MaxClose(_)
MaxClose(rows) ==
    IF Len(rows) = 1 THEN rows[1].p
    ELSE LET m == MaxClose(Tail(rows)) IN IF rows[1].p > m THEN rows[1].p ELSE m

RECURSIVE MinClose(_)
MinClose(rows) ==
    IF Len(rows) = 1 THEN rows[1].p
    ELSE LET m == MinClose(Tail(rows)) IN IF rows[1].p < m THEN rows[1].p ELSE m

-----------------------------------------------------------------------------
(* calculators.py, continued *)

(* CollectResults returning the dictionary as soon as it holds an entry *)
CollectResultsAny(etf1, result1, etf2, result2) ==
    LET after1 == IF IsNone(result1) THEN <<>> ELSE (etf1 :> result1)
        results == IF IsNone(result2) THEN after1 ELSE (etf2 :> result2) @@ after1
    IN  IF Cardinality(DOMAIN results) >= 1
        THEN [kind |-> "comparison", results |-> results]
        ELSE None

(* the loop of compare_etfs over the two results: the dictionary of those
   that are not None, keyed by symbol, when it holds two entries *)
CollectResults(etf1, result1, etf2, result2) ==
    LET after1 == IF IsNone(result1) THEN <<>> ELSE (etf1 :> result1)
        results == IF IsNone(result2) THEN after1 ELSE (etf2 :> result2) @@ after1
    IN  IF Cardinality(DOMAIN results) = 2
        THEN [kind |-> "comparison", results |-> results]
        ELSE None

(* compare_etfs(etf1, etf2, investment_amount): each leg is computed once *)
CompareEtfs(etf1, hist1, info1, etf2, hist2, info2, investment_amount) ==
    CHOOSE out \in
        {CollectResults(etf1, result1, etf2, result2) :
            result1 \in {CalculateInvestmentGrowth(hist1, info1, investment_amount, TRUE)},
            result2 \in {CalculateInvestmentGrowth(hist2, info2, investment_amount, TRUE)}} :
        TRUE

(* Risk metrics.  On a numeric Close column no statement of
   _calculate_max_drawdown and _calculate_sharpe_ratio raises (numpy divides
   by zero without an exception), so their except branches, which return 0,
   are never taken on the gateway's answers modelled here *)

RECURSIVE SumNum(_)
SumNum(q) == IF Len(q) = 0 THEN Fin(0) ELSE NumAdd(q[1], SumNum(Tail(q)))

(* Series.mean(): nan for an empty series *)
Mean(q) == IF Len(q) = 0 THEN NaN ELSE NpDiv(SumNum(q), FromInt(Len(q)))

NumSqrt(x) ==
    CASE x.k = "fin" -> IF x.v < 0 THEN NaN ELSE Fin(FixRoot(x.v, 2))
      [] x.k = "inf" -> IF x.v = 1 THEN x ELSE NaN
      [] OTHER -> x

(* Series.std(): the sample deviation, nan for fewer than two values *)
Std(q) ==
    IF Len(q) < 2 THEN NaN
    ELSE LET m == Mean(q)
             sq == [i \in 1..Len(q) |-> NumMul(NumSub(q[i], m), NumSub(q[i], m))]
         IN  NumSqrt(NpDiv(SumNum(sq), FromInt(Len(q) - 1)))

(* hist['Close'].pct_change().dropna() *)
DailyReturns(rows) ==
    LET change == [i \in 1..(Len(rows) - 1) |->
                      NumSub(NpDiv(FromInt(rows[i + 1].p), FromInt(rows[i].p)), Fin(SCALE))]
    IN  SelectSeq(change, LAMBDA x : x.k # "nan")

(* np.sqrt(252) *)
Sqrt252 == Fin(FixRoot(252 * SCALE, 2))

RECURSIVE MinNum(_)
(* Series.min(): nan values are skipped, nan when nothing is left *)
MinNum(q) ==
    IF Len(q) = 0 THEN NaN
    ELSE LET m == MinNum(Tail(q))
         IN  CASE q[1].k = "nan" -> m
               [] m.k = "nan" -> q[1]
               [] NumGt(m, q[1]) -> q[1]
               [] OTHER -> m

(* _calculate_max_drawdown(prices) *)
CalculateMaxDrawdown(rows) ==
    LET peak(i) == FromInt(MaxClose(SubSeq(rows, 1, i)))
        drawdown == [i \in 1..Len(rows) |->
                        NumMul(NpDiv(NumSub(FromInt(rows[i].p), peak(i)), peak(i)),
                               FromInt(100))]
    IN  MinNum(drawdown)

(* _calculate_sharpe_ratio(returns, risk_free_rate = 0.02) *)
CalculateSharpeRatio(returns) ==
    LET excess_returns == NumSub(NumMul(Mean(returns), FromInt(252)), Fin(SCALE \div 50))
        volatility == NumMul(Std(returns), Sqrt252)
    IN  IF NumEq(volatility, Fin(0)) THEN Fin(0) ELSE NpDiv(excess_returns, volatility)

(* get_risk_metrics(symbol, period) *)
GetRiskMetrics(hist) ==
    IF hist.exc \/ Len(hist.rows) = 0 THEN None
    ELSE
    LET daily_returns == DailyReturns(hist.rows)
        volatility == NumMul(NumMul(Std(daily_returns), Sqrt252), FromInt(100))
    IN  [kind |-> "risk",
         volatility |-> Round2(volatility),
         max_drawdown |-> Round2(CalculateMaxDrawdown(hist.rows)),
         sharpe_ratio |-> Round2(CalculateSharpeRatio(daily_returns))]

-----------------------------------------------------------------------------
(* etf_data.py, continued *)

(* ETFAnalyzer.get_etf_summary: the gateway's High and Low columns equal
   Close in the model, and averageVolume is never stated *)
GetEtfSummary(symbol, hist, info) ==
    IF info.exc \/ hist.exc \/ Len(hist.rows) = 0 THEN None
    ELSE
    LET current_price == FromInt(Last(hist.rows).p)
        year_return ==
            NumMul(NumSub(NpDiv(current_price, FromInt(First(hist.rows).p)), Fin(SCALE)),
                   FromInt(100))
        volatility ==
            NumMul(NumMul(Std(DailyReturns(hist.rows)), Sqrt252), FromInt(100))
        er_field == InfoGet(info.er, Val(50))
    IN  IF er_field.st = "null" THEN None
        ELSE [kind |-> "summary",
              symbol |-> symbol,
              name |-> LongName(info.name, symbol, [src |-> "Unknown", of |-> symbol]),
              current_price |-> Round2(current_price),
              year_high |-> Round2(FromInt(MaxClose(hist.rows))),
              year_low |-> Round2(FromInt(MinClose(hist.rows))),
              year_return |-> Round2(year_return),
              volatility |-> Round2(volatility),
              volume |-> "N/A",
              expense_ratio |-> NumMul(Fin(er_field.v), FromInt(100)),
              aum |-> InfoGet(info.aum, Val(0))]

(* the body of the loop of ETFAnalyzer.get_top_etfs (etf_data.py): the row of
   one symbol, or no row *)
TopEtfRow(symbol, info, hist) ==
    LET etf_info == GetEtfInfo(symbol, info)
        c == CalculateCagr(hist)
    IN  IF IsNone(etf_info) \/ IsNone(c) THEN None
        ELSE
        LET er == etf_info.expense_ratio
            aum == etf_info.aum
        IN  [kind |-> "row",
             Symbol |-> symbol,
             Name |-> etf_info.name,
             Cagr |-> Round2(c.cagr),
             InceptionDate |-> c.inception_date,
             Years |-> Round1(c.years),
             ExpenseRatio |->
                IF er.st = "val" /\ er.v # 0 THEN NumMul(Fin(er.v), FromInt(100))
                ELSE Fin(SCALE \div 2),
             Aum |-> IF aum.st = "val" /\ aum.v # 0 THEN Val(aum.v) ELSE [st |-> "N/A", v |-> 0]]

(* the body of the loop of ETFAnalyzer.get_top_etfs (etf_data_fixed.py): its
   get_etf_info always answers, with the defaults when the metadata raises *)
TopEtfRowFixed(symbol, info, hist) ==
    LET etf_info == GetEtfInfoFixed(symbol, info)
        c == CalculateCagrFixed(hist)
    IN  IF IsNone(c) THEN None
        ELSE
        LET er == etf_info.expense_ratio
            aum == etf_info.aum
        IN  [kind |-> "row",
             Symbol |-> symbol,
             Name |-> etf_info.name,
             Cagr |-> Round2(c.cagr),
             InceptionDate |-> c.inception_date,
             Years |-> Round1(c.years),
             ExpenseRatio |->
                IF er.st = "val" /\ er.v # 0 THEN Round3(NumMul(Fin(er.v), FromInt(100)))
                ELSE Fin(SCALE \div 2),
             Aum |-> IF aum.st = "val" /\ aum.v > 0 THEN Val(aum.v) ELSE [st |-> "N/A", v |-> 0]]

IsRow(r) == ~IsNone(r)

(* the rows a loop appends, in the order of iteration *)
Appended(rows) == SelectSeq(rows, IsRow)

(* df.sort_values('CAGR (%)', ascending=False): the rows by descending key, nan
   keys last.  The default kind is quicksort, which is not stable: which of
   two rows with equal keys comes first depends on the numpy build, so every
   order of them is an outcome. *)
RECURSIVE SortOrders(_, _)
SortOrders(rows, S) ==
    IF S = {} THEN {<<>>}
    ELSE LET ranked == {i \in S : rows[i].Cagr.k # "nan"}
             tops == IF ranked = {} THEN S
                     ELSE {i \in ranked :
                             \A j \in ranked : ~NumGt(rows[j].Cagr, rows[i].Cagr)}
         IN  UNION {{<<rows[i]>> \o t : t \in SortOrders(rows, S \ {i})} : i \in tops}

SortValues(rows) == SortOrders(rows, DOMAIN rows)

(* list(d.items())[:n] *)
Take(list, n) == SubSeq(list, 1, IF Len(list) < n THEN Len(list) ELSE n)

(* ETFAnalyzer.get_top_etfs of etf_data.py: the data frames it can return
   for the answers of the gateway, answers[i] being the answer for the i-th
   symbol of the catalog *)
GetTopEtfs(answers) ==
    UNION {SortValues(results) : results \in
        {Appended([i \in 1..Len(EtfListOrder) |->
            TopEtfRow(EtfListOrder[i], answers[i].info, answers[i].hist)])}}

(* [:10]  # Limit to 10 for demo *)
TopLimit == 10

(* the order of the keys of extended_etf_list: the countries' dicts merged
   in the order of the database, a symbol keeping its first position *)
ExtendedOrder == GlobalEtfDatabase("USA") \o GlobalEtfDatabase("INDIA")

(* the dict get_top_etfs iterates: the whole catalog for no country (None)
   and for "All Countries" *)
EtfDict(country_filter) ==
    IF country_filter \in {"None", "All Countries"} THEN ExtendedOrder
    ELSE GlobalEtfDatabase(country_filter)

(* ETFAnalyzer.get_top_etfs(country_filter) of etf_data_fixed.py *)
GetTopEtfsFixed(country_filter, answers) ==
    UNION {SortValues(results) : results \in
        {Appended([i \in 1..Len(Take(EtfDict(country_filter), TopLimit)) |->
            TopEtfRowFixed(EtfDict(country_filter)[i],
                           answers[i].info, answers[i].hist)])}}

-----------------------------------------------------------------------------
(* app_fixed.py *)

(* get_etf_data(symbol) *)
GetEtfData(symbol, hist, info) ==
    IF hist.exc \/ info.exc \/ Len(hist.rows) = 0 \/ Len(hist.rows) < MinRows THEN None
    ELSE
    LET first_price == FromInt(First(hist.rows).p)
        last_price == FromInt(Last(hist.rows).p)
        years == YearsOf(Last(hist.rows).d - First(hist.rows).d)
        cagr == NumMul(NumSub(RootPow(NpDiv(last_price, first_price), years), Fin(SCALE)),
                       FromInt(100))
        er_field == InfoGet(info.er, Val(50))
    IN  IF ~NumGt(years, Fin(0)) \/ er_field.st = "null" THEN None
        ELSE [kind |-> "data",
              symbol |-> symbol,
              name |-> IF symbol \in ExtendedEtfList
                       THEN CatalogName(ExtendedEtfList, symbol)
                       ELSE LongName(info.name, symbol, [src |-> "Unknown", of |-> symbol]),
              cagr |-> Round2(cagr),
              expense_ratio |-> Round3(NumMul(Fin(er_field.v), FromInt(100))),
              years |-> Round1(years),
              current_price |-> Round2(last_price),
              first_price |-> first_price,
              last_price |-> last_price]

(* calculate_investment_growth(symbol, amount) of app_fixed.py *)
FixedInvestmentGrowth(symbol, hist, info, amount) ==
    LET data == GetEtfData(symbol, hist, info)
    IN  IF IsNone(data) THEN None
        ELSE
        LET gross_value == NumMul(FromInt(amount), NpDiv(data.last_price, data.first_price))
            gross_return ==
                NumMul(NumSub(NpDiv(gross_value, FromInt(amount)), Fin(SCALE)), FromInt(100))
            expense_ratio == PyDiv(data.expense_ratio, FromInt(100))
            fee_multiplier == PyPow(NumSub(Fin(SCALE), expense_ratio), data.years)
            net_value == ScaleBy(gross_value, fee_multiplier)
            net_return ==
                NumMul(NumSub(NpDiv(net_value, FromInt(amount)), Fin(SCALE)), FromInt(100))
        IN  IF IsExc(net_value) THEN None
            ELSE [kind |-> "growth_fixed",
                  symbol |-> symbol,
                  initial_investment |-> FromInt(amount),
                  gross_value |-> gross_value,
                  net_value |-> net_value,
                  gross_return |-> gross_return,
                  net_return |-> net_return,
                  total_fees |-> NumSub(gross_value, net_value),
                  expense_ratio |-> data.expense_ratio,
                  years |-> data.years,
                  cagr |-> data.cagr]

(* WinnerFixed comparing with >= in place of > *)
WinnerFixedOrEqual(etf1, value1, etf2, value2) ==
    IF NumGt(value1, value2) \/ NumEq(value1, value2)
    THEN [winner |-> etf1, winner_value |-> value1, loser_value |-> value2]
    ELSE [winner |-> etf2, winner_value |-> value2, loser_value |-> value1]

(* the page "Compare ETFs" of app_fixed.py, lines 451-469: the winner and the
   fee analysis *)
WinnerFixed(etf1, value1, etf2, value2) ==
    IF NumGt(value1, value2)
    THEN [winner |-> etf1, winner_value |-> value1, loser_value |-> value2]
    ELSE [winner |-> etf2, winner_value |-> value2, loser_value |-> value1]

FeeAnalysis(etf1, fees1, etf2, fees2) ==
    IF NumEq(fees1, fees2) THEN "none"
    ELSE IF NumGt(fees1, fees2) THEN etf1 ELSE etf2

(* lines 428-469: what the page shows for the two results *)
FixedCompareShown(etf1, result1, etf2, result2) ==
    IF IsNone(result1) \/ IsNone(result2)
    THEN [kind |-> "page", section |-> "compare", shown |-> "error"]
    ELSE
    LET w == WinnerFixed(etf1, result1.net_value, etf2, result2.net_value)
    IN  [kind |-> "page", section |-> "compare", shown |-> "comparison",
         table |-> <<result1, result2>>,
         net1 |-> result1.net_value,
         net2 |-> result2.net_value,
         winner |-> w.winner,
         winner_value |-> w.winner_value,
         loser_value |-> w.loser_value,
         difference |-> NumSub(w.winner_value, w.loser_value),
         fee_analysis |-> FeeAnalysis(etf1, result1.total_fees, etf2, result2.total_fees)]

(* the page "Compare ETFs" of app_fixed.py after the button: each leg is
   computed once *)
FixedComparePage(etf1, hist1, info1, etf2, hist2, info2) ==
    CHOOSE page \in
        {FixedCompareShown(etf1, result1, etf2, result2) :
            result1 \in {FixedInvestmentGrowth(etf1, hist1, info1, 1000)},
            result2 \in {FixedInvestmentGrowth(etf2, hist2, info2, 1000)}} :
        TRUE

(* symbols_to_check = list(etf_dict.items())[:8]  # Limit for demo *)
PageLimit == 8

(* one row of the results of the Top Global Performers page *)
PageRow(symbol, hist, info) ==
    LET data == GetEtfData(symbol, hist, info)
    IN  IF IsNone(data) THEN None
        ELSE [kind |-> "row",
              Symbol |-> data.symbol,
              Name |-> data.name,
              Cagr |-> data.cagr,
              ExpenseRatio |-> data.expense_ratio,
              Years |-> data.years]

(* what the page shows for one order of the sorted frame *)
TopPageShown(df) ==
    IF df = <<>> THEN [kind |-> "top_page", shown |-> "error", rows |-> <<>>]
    ELSE [kind |-> "top_page",
          shown |-> "table",
          rows |-> df,
          avg_cagr |-> Mean([i \in DOMAIN df |-> df[i].Cagr]),
          best_performer |-> df[1].Symbol,
          avg_expense |-> Mean([i \in DOMAIN df |-> df[i].ExpenseRatio])]

(* the Top Global Performers page of app_fixed.py for a selected country *)
TopPerformersPage(selected_country, answers) ==
    {TopPageShown(df) : df \in
        UNION {SortValues(results) : results \in
            {Appended([i \in 1..Len(Take(GLOBAL_ETF_DATABASE(selected_country), PageLimit)) |->
                PageRow(GLOBAL_ETF_DATABASE(selected_country)[i],
                        answers[i].hist, answers[i].info)])}}}

-----------------------------------------------------------------------------
(* app.py *)

(* the sections the sidebar offers (lines 53-58), their emoji written as a
   bracketed word *)
AppSections ==
    {"[trophy] Top Global Performers", "[search] Search ETFs by Country",
     "[money] Investment Calculator", "[scales] Compare ETFs",
     "[chart] Country Analysis"}

(* lines 535-545: the winner of a comparison *)
WinnerApp(etf1, value1, etf2, value2) ==
    IF NumGt(value1, value2)
    THEN [winner |-> etf1, winner_value |-> value1, loser_value |-> value2]
    ELSE [winner |-> etf2, winner_value |-> value2, loser_value |-> value1]

(* lines 492-562: what the block shows for the value compare_etfs returned *)
AppCompareShown(etf1, etf2, comparison) ==
    IF IsNone(comparison)
    THEN [kind |-> "page", section |-> "compare", shown |-> "error"]
    ELSE
    LET r1 == comparison.results[etf1]
        r2 == comparison.results[etf2]
        w == WinnerApp(etf1, r1.net_current_value, etf2, r2.net_current_value)
    IN  [kind |-> "page", section |-> "compare", shown |-> "comparison",
         table |-> <<r1, r2>>,
         net1 |-> r1.net_current_value,
         net2 |-> r2.net_current_value,
         winner |-> w.winner,
         winner_value |-> w.winner_value,
         loser_value |-> w.loser_value,
         difference |-> NumSub(w.winner_value, w.loser_value),
         fee_analysis |-> FeeAnalysis(etf1, r1.total_fees, etf2, r2.total_fees)]

(* lines 487-562: the comparison block after the button *)
AppCompareBlock(etf1, hist1, info1, etf2, hist2, info2) ==
    CHOOSE page \in
        {AppCompareShown(etf1, etf2, comparison) :
            comparison \in {CompareEtfs(etf1, hist1, info1, etf2, hist2, info2, 1000)}} :
        TRUE

(* the dispatch chain of the script, lines 91, 201, 315 and 453: the section
   whose block runs for the selected label; the footer follows every one *)
AppDispatch(page) ==
    CASE page = "[trophy] Top Global Performers" -> "top"
      [] page = "[search] Search ETFs by Country" -> "search"
      [] page = "Investment Calculator" -> "calculator"
      [] page = "ETF Comparison" -> "compare"
      [] OTHER -> "footer"

TopLabel == "[trophy] Top Global Performers"

(* lines 24-27: the two keys the script sets to None when they are absent *)
SessionSetup(s) ==
    IF s.kind = "none"
    THEN [kind |-> "state", etf_data |-> None, last_update |-> None]
    ELSE s

(* @st.cache_data(ttl=3600), in seconds *)
Ttl == 3600

(* the entry of st.cache_data is valid while less than ttl seconds old *)
Fresh(entry, clock) == entry.kind = "entry" /\ clock - entry.stamp < Ttl

(* the entry kept although it is ttl seconds old or older *)
LoadEtfDataNoExpiry(entry, clock, answers) ==
    IF entry.kind = "entry"
    THEN {[etf_data |-> entry.value, computed |-> FALSE, entry |-> entry]}
    ELSE {[etf_data |-> df, computed |-> TRUE,
           entry |-> [kind |-> "entry", value |-> df, stamp |-> clock]] :
              df \in GetTopEtfsFixed("None", answers)}

(* load_etf_data() under st.cache_data: the stored table of a valid entry,
   else the table get_top_etfs() returns, stored with the time *)
LoadEtfData(entry, clock, answers) ==
    IF Fresh(entry, clock)
    THEN {[etf_data |-> entry.value, computed |-> FALSE, entry |-> entry]}
    ELSE {[etf_data |-> df, computed |-> TRUE,
           entry |-> [kind |-> "entry", value |-> df, stamp |-> clock]] :
              df \in GetTopEtfsFixed("None", answers)}

(* lines 141-199 for the loaded table.  The metrics are shown first; the
   column 'AUM (Billions)' of etf_data_fixed's table holds strings ('$1.0B',
   'N/A'), f"${x:.1f}B" raises ValueError on a string, and the except block
   shows the error where the table would follow. *)
AppTopShown(selected_country, etf_data) ==
    IF etf_data = <<>>
    THEN [kind |-> "app_top", heading |-> selected_country, shown |-> "unavailable",
          table |-> <<>>]
    ELSE [kind |-> "app_top", heading |-> selected_country, shown |-> "metrics_and_error",
          avg_cagr |-> Mean([i \in DOMAIN etf_data |-> etf_data[i].Cagr]),
          best_performer |-> etf_data[1].Symbol,
          avg_expense |-> Mean([i \in DOMAIN etf_data |-> etf_data[i].ExpenseRatio]),
          table |-> <<>>]

(* lines 91-199: the page for a selected country; st.stop() ends the run
   when the country has no ETFs *)
AppTopPage(selected_country, entry, clock, answers) ==
    IF selected_country # "All Countries" /\ GlobalEtfDatabase(selected_country) = <<>>
    THEN {[page |-> [kind |-> "app_top", heading |-> selected_country,
                     shown |-> "stopped", table |-> <<>>],
           loaded |-> FALSE, computed |-> FALSE, etf_data |-> <<>>, entry |-> entry]}
    ELSE {[page |-> AppTopShown(selected_country, l.etf_data),
           loaded |-> TRUE, computed |-> l.computed, etf_data |-> l.etf_data,
           entry |-> l.entry] : l \in LoadEtfData(entry, clock, answers)}

(* lines 201-233 for a search term: ETFAnalyzer of etf_data_fixed.py has no
   method search_etf, so line 216 raises AttributeError for every term that
   is not empty, and line 226 never stores a selected ETF *)
AppSearchShown(search_term) ==
    IF search_term = "" THEN [kind |-> "page", section |-> "search", shown |-> "analysis"]
    ELSE [kind |-> "page", section |-> "search", shown |-> "exception"]

-----------------------------------------------------------------------------
(* The runs.  Streamlit runs the script from the top on every interaction: a
   run serves one request on what the gateway answers during it, and nothing
   of it is kept for the next run.  The gateway's answers are published
   first, leg by leg; an operation that does not ask for a history (or for
   the metadata, or for a second ticker) is served in the states where none
   is published. *)

Down == [hist |-> HistRaises, info |-> InfoRaises]

NoRequest == [symbol |-> "none"]

(* st.cache_data before load_etf_data was ever called *)
NoEntry == [kind |-> "none"]

(* st.session_state of a session that has not run the script yet: no key *)
NoSession == [kind |-> "none"]

Init ==
    /\ gw = <<Down, Down>>
    /\ op = "idle"
    /\ req = NoRequest
    /\ res = None
    /\ cache = NoEntry
    /\ now = 0
    /\ session = NoSession

Rerun ==
    /\ op # "idle"
    /\ gw' = <<Down, Down>>
    /\ op' = "idle"
    /\ req' = NoRequest
    /\ res' = None
    /\ UNCHANGED <<cache, now, session>>

LaterLegsDown(k) == \A j \in (k + 1)..Len(gw) : gw[j] = Down

PublishHist ==
    /\ op = "idle"
    /\ gw = <<Down, Down>>
    /\ \E h \in HistResponses \ {HistRaises} : gw' = [gw EXCEPT ![1].hist = h]
    /\ UNCHANGED <<op, req, res>>
    /\ UNCHANGED <<cache, now, session>>

PublishInfo ==
    /\ op = "idle"
    /\ gw[1].info = InfoRaises
    /\ gw[2] = Down
    /\ \E i \in Infos \ {InfoRaises} :
        /\ gw[1].hist.rows \in ScenarioSeries => i.er \in ScenarioRatios
        /\ gw' = [gw EXCEPT ![1].info = i]
    /\ UNCHANGED <<op, req, res>>
    /\ UNCHANGED <<cache, now, session>>

OneTicker == op = "idle" /\ gw[2] = Down

HistOnly == OneTicker /\ gw[1].info = InfoRaises

InfoOnly == OneTicker /\ gw[1].hist = HistRaises

CalcGrowth ==
    /\ OneTicker
    /\ gw[1].info \in GrowthInfos
    /\ \E initial \in Principals, include \in BOOLEAN :
        /\ op' = "calculate_investment_growth"
        /\ req' = [symbol |-> "SPY", initial |-> initial, include |-> include]
        /\ res' = CalculateInvestmentGrowth(gw[1].hist, gw[1].info, initial, include)
    /\ UNCHANGED gw
    /\ UNCHANGED <<cache, now, session>>

QuickCalc ==
    /\ HistOnly
    /\ \E amount \in Principals :
        /\ op' = "quick_calculation"
        /\ req' = [symbol |-> "SPY", initial |-> amount]
        /\ res' = QuickCalculation(gw[1].hist, amount)
    /\ UNCHANGED gw
    /\ UNCHANGED <<cache, now, session>>

Cagr ==
    /\ HistOnly
    /\ op' = "calculate_cagr"
    /\ req' = [symbol |-> "SPY"]
    /\ res' = CalculateCagr(gw[1].hist)
    /\ UNCHANGED gw
    /\ UNCHANGED <<cache, now, session>>

CagrFixed ==
    /\ HistOnly
    /\ op' = "calculate_cagr_fixed"
    /\ req' = [symbol |-> "SPY"]
    /\ res' = CalculateCagrFixed(gw[1].hist)
    /\ UNCHANGED gw
    /\ UNCHANGED <<cache, now, session>>

EtfInfo ==
    /\ InfoOnly
    /\ \E symbol \in Symbols :
        /\ op' = "get_etf_info"
        /\ req' = [symbol |-> symbol]
        /\ res' = GetEtfInfo(symbol, gw[1].info)
    /\ UNCHANGED gw
    /\ UNCHANGED <<cache, now, session>>

EtfInfoFixed ==
    /\ InfoOnly
    /\ \E symbol \in Symbols :
        /\ op' = "get_etf_info_fixed"
        /\ req' = [symbol |-> symbol]
        /\ res' = GetEtfInfoFixed(symbol, gw[1].info)
    /\ UNCHANGED gw
    /\ UNCHANGED <<cache, now, session>>

EtfSummary ==
    /\ OneTicker
    /\ gw[1].info.inception = Absent
    /\ \E symbol \in Symbols :
        /\ op' = "get_etf_summary"
        /\ req' = [symbol |-> symbol]
        /\ res' = GetEtfSummary(symbol, gw[1].hist, gw[1].info)
    /\ UNCHANGED gw
    /\ UNCHANGED <<cache, now, session>>

RiskMetrics ==
    /\ HistOnly
    /\ op' = "get_risk_metrics"
    /\ req' = [symbol |-> "SPY"]
    /\ res' = GetRiskMetrics(gw[1].hist)
    /\ UNCHANGED gw
    /\ UNCHANGED <<cache, now, session>>

TopRow ==
    /\ OneTicker
    /\ \E symbol \in EtfList \cap Symbols :
        /\ op' = "get_top_etfs_row"
        /\ req' = [symbol |-> symbol]
        /\ res' = TopEtfRow(symbol, gw[1].info, gw[1].hist)
    /\ UNCHANGED gw
    /\ UNCHANGED <<cache, now, session>>

FixedGrowth ==
    /\ OneTicker
    /\ gw[1].info \in GrowthInfos
    /\ \E symbol \in Symbols, amount \in Principals :
        /\ op' = "calculate_investment_growth_fixed"
        /\ req' = [symbol |-> symbol, initial |-> amount]
        /\ res' = FixedInvestmentGrowth(symbol, gw[1].hist, gw[1].info, amount)
    /\ UNCHANGED gw
    /\ UNCHANGED <<cache, now, session>>

Next ==
    \/ PublishHist
    \/ PublishInfo
    \/ CalcGrowth
    \/ QuickCalc
    \/ Cagr
    \/ CagrFixed
    \/ EtfInfo
    \/ EtfInfoFixed
    \/ EtfSummary
    \/ RiskMetrics
    \/ TopRow
    \/ FixedGrowth
    \/ Rerun

Spec == Init /\ [][Next]_vars

-----------------------------------------------------------------------------
(* Comparisons.  The two legs of a comparison each ask the gateway; a leg's
   history is missing, empty or a series of MinRows rows that starts on day 0 *)

LegHists ==
    {h \in HistResponses :
        h.exc \/ Len(h.rows) = 0 \/ (Len(h.rows) = MinRows /\ First(h.rows).d = 0)}

LegInfos == {i \in GrowthInfos : i.exc \/ i.er \in {Absent, Val(100)}}

PublishLegHist ==
    /\ op = "idle"
    /\ \E k \in 1..2 :
        /\ gw[k] = Down
        /\ LaterLegsDown(k)
        /\ \E h \in LegHists \ {HistRaises} : gw' = [gw EXCEPT ![k].hist = h]
    /\ UNCHANGED <<op, req, res>>
    /\ UNCHANGED <<cache, now, session>>

PublishLegInfo ==
    /\ op = "idle"
    /\ \E k \in 1..2 :
        /\ gw[k].info = InfoRaises
        /\ LaterLegsDown(k)
        /\ \E i \in LegInfos \ {InfoRaises} : gw' = [gw EXCEPT ![k].info = i]
    /\ UNCHANGED <<op, req, res>>
    /\ UNCHANGED <<cache, now, session>>

CompareCall ==
    /\ op = "idle"
    /\ \E etf1 \in Symbols, etf2 \in Symbols :
        /\ op' = "compare_etfs"
        /\ req' = [symbol |-> etf1, etf1 |-> etf1, etf2 |-> etf2]
        /\ res' = CompareEtfs(etf1, gw[1].hist, gw[1].info,
                              etf2, gw[2].hist, gw[2].info, 1000)
    /\ UNCHANGED gw
    /\ UNCHANGED <<cache, now, session>>

(* one run of app.py with a section selected; in the comparison section the
   button is pressed *)
AppRun ==
    /\ op = "idle"
    /\ session' = SessionSetup(session)
    /\ UNCHANGED kept
    /\ \E page \in AppSections \ {TopLabel} :
        /\ op' = "app"
        /\ IF AppDispatch(page) = "compare"
           THEN \E etf1 \in Symbols, etf2 \in Symbols :
                    /\ req' = [symbol |-> etf1, page |-> page, etf1 |-> etf1, etf2 |-> etf2]
                    /\ res' = AppCompareBlock(etf1, gw[1].hist, gw[1].info,
                                              etf2, gw[2].hist, gw[2].info)
           ELSE /\ gw = <<Down, Down>>
                /\ req' = [symbol |-> "none", page |-> page]
                /\ res' = [kind |-> "page", section |-> AppDispatch(page),
                           shown |-> "section"]
    /\ UNCHANGED gw

(* one run of app_fixed.py with the section "Compare ETFs" selected and the
   button pressed *)
FixedCompareRun ==
    /\ op = "idle"
    /\ \E etf1 \in Symbols, etf2 \in Symbols :
        /\ op' = "app_fixed_compare"
        /\ req' = [symbol |-> etf1, etf1 |-> etf1, etf2 |-> etf2]
        /\ res' = FixedComparePage(etf1, gw[1].hist, gw[1].info,
                                   etf2, gw[2].hist, gw[2].info)
    /\ UNCHANGED gw
    /\ UNCHANGED <<cache, now, session>>

NextCompare ==
    \/ PublishLegHist
    \/ PublishLegInfo
    \/ CompareCall
    \/ AppRun
    \/ FixedCompareRun
    \/ Rerun

SpecCompare == Init /\ [][NextCompare]_vars

-----------------------------------------------------------------------------
(* Rankings.  A ranking asks the gateway for every symbol of its catalog in
   turn; gw[i] is the answer for the i-th symbol asked.  The answers for the
   first RichLen symbols are published one by one from RankAnswers, the
   answers for the rest of the catalog together. *)

PlainInfo ==
    [exc |-> FALSE, er |-> Absent, aum |-> Absent, name |-> Absent, inception |-> Absent]

Series(rows) == [exc |-> FALSE, rows |-> rows]

(* a history of MinRows rows over four years from price first to price last *)
Grown(first, last) == Series(LongSeries([d |-> 0, p |-> first], [d |-> 1461, p |-> last]))

RichLen == 3

(* the longest catalog *)
CatalogMax == Len(GlobalEtfDatabase("USA"))

RankAnswers ==
    { Down,
      [hist |-> Grown(100, 200), info |-> InfoRaises],
      [hist |-> HistRaises, info |-> PlainInfo],
      [hist |-> Series(<<>>), info |-> PlainInfo],
      [hist |-> Series(<<[d |-> 0, p |-> 100]>>), info |-> PlainInfo],
      [hist |-> Series(<<[d |-> 0, p |-> 100], [d |-> 1461, p |-> 200]>>), info |-> PlainInfo],
      [hist |-> Grown(100, 200), info |-> PlainInfo],
      [hist |-> Grown(100, 200), info |-> [PlainInfo EXCEPT !.er = Val(100)]],
      [hist |-> Grown(100, 196), info |-> PlainInfo] }

(* the rest of the catalog: no symbol answers, or each answers with a
   history of its own growth *)
RestAnswers ==
    { [i \in 1..(CatalogMax - RichLen) |-> Down],
      [i \in 1..(CatalogMax - RichLen) |->
          [hist |-> Grown(100, 112 + 4 * i), info |-> PlainInfo]] }

InitRank ==
    /\ gw = <<>>
    /\ op = "idle"
    /\ req = NoRequest
    /\ res = None
    /\ cache = NoEntry
    /\ now = 0
    /\ session = NoSession

RerunRank ==
    /\ op # "idle"
    /\ gw' = <<>>
    /\ op' = "idle"
    /\ req' = NoRequest
    /\ res' = None
    /\ UNCHANGED <<cache, now, session>>

PublishAnswer ==
    /\ op = "idle"
    /\ Len(gw) < RichLen
    /\ \E a \in RankAnswers : gw' = Append(gw, a)
    /\ UNCHANGED <<op, req, res>>
    /\ UNCHANGED <<cache, now, session>>

PublishRest ==
    /\ op = "idle"
    /\ Len(gw) = RichLen
    /\ \E rest \in RestAnswers : gw' = gw \o rest
    /\ UNCHANGED <<op, req, res>>
    /\ UNCHANGED <<cache, now, session>>

Published == op = "idle" /\ Len(gw) = CatalogMax

TopEtfs ==
    /\ Published
    /\ \E df \in GetTopEtfs(gw) :
        /\ op' = "get_top_etfs"
        /\ req' = [symbol |-> "etf_list"]
        /\ res' = [kind |-> "ranking", rows |-> df]
    /\ UNCHANGED gw
    /\ UNCHANGED <<cache, now, session>>

FixedCountries == {"USA", "INDIA"}

TopEtfsFixed ==
    /\ Published
    /\ \E country_filter \in FixedCountries :
        \E df \in GetTopEtfsFixed(country_filter, gw) :
            /\ op' = "get_top_etfs_fixed"
            /\ req' = [symbol |-> country_filter]
            /\ res' = [kind |-> "ranking", rows |-> df]
    /\ UNCHANGED gw
    /\ UNCHANGED <<cache, now, session>>

PageCountries == {"USA", "UK"}

TopPage ==
    /\ Published
    /\ \E selected_country \in PageCountries :
        \E shown \in TopPerformersPage(selected_country, gw) :
            /\ op' = "top_page_fixed"
            /\ req' = [symbol |-> selected_country]
            /\ res' = shown
    /\ UNCHANGED gw
    /\ UNCHANGED <<cache, now, session>>

NextRank ==
    \/ PublishAnswer
    \/ PublishRest
    \/ TopEtfs
    \/ TopEtfsFixed
    \/ TopPage
    \/ RerunRank

SpecRank == InitRank /\ [][NextRank]_vars

-----------------------------------------------------------------------------
(* The runs of app.py.  The cache of load_etf_data belongs to the process and
   the session state to the browser session: both outlive a run.  Between
   the runs the clock advances and the market moves; gw[i] is the answer for
   the i-th symbol get_top_etfs asks. *)

MaxTicks == 5

(* the clock advances by half the time an entry is kept *)
TickSeconds == Ttl \div 2

Closed == [i \in 1..CatalogMax |-> Down]

Markets ==
    { Closed,
      [i \in 1..CatalogMax |-> [hist |-> Grown(100, 112 + 4 * i), info |-> PlainInfo]],
      [i \in 1..CatalogMax |-> [hist |-> Grown(100, 200 - 4 * i), info |-> PlainInfo]] }

(* "All Countries" and the countries of get_available_countries() *)
AppCountries == {"All Countries", "USA", "INDIA"}

SearchTerms == {"", "SPY"}

InitApp ==
    /\ gw = Closed
    /\ op = "idle"
    /\ req = NoRequest
    /\ res = None
    /\ cache = NoEntry
    /\ now = 0
    /\ session = NoSession

MarketMoves ==
    /\ op = "idle"
    /\ gw' \in Markets \ {gw}
    /\ UNCHANGED <<op, req, res, cache, now, session>>

Tick ==
    /\ op = "idle"
    /\ now < MaxTicks * TickSeconds
    /\ now' = now + TickSeconds
    /\ UNCHANGED <<gw, op, req, res, cache, session>>

(* one run of app.py with the section Top Global Performers selected *)
AppTop ==
    /\ op = "idle"
    /\ \E selected_country \in AppCountries :
        \E out \in AppTopPage(selected_country, cache, now, gw) :
            /\ op' = "app_top"
            /\ req' = [symbol |-> "none", page |-> TopLabel, country |-> selected_country]
            /\ res' = out.page @@
                       [loaded |-> out.loaded, computed |-> out.computed,
                        etf_data |-> out.etf_data]
            /\ cache' = out.entry
    /\ session' = SessionSetup(session)
    /\ UNCHANGED <<gw, now>>

(* one run of app.py with the section Search ETFs by Country selected *)
AppSearch ==
    /\ op = "idle"
    /\ \E search_term \in SearchTerms :
        /\ op' = "app_search"
        /\ req' = [symbol |-> "none", page |-> "[search] Search ETFs by Country",
                   term |-> search_term]
        /\ res' = AppSearchShown(search_term)
    /\ session' = SessionSetup(session)
    /\ UNCHANGED <<gw, cache, now>>

(* the run is over: the script's variables are gone *)
RerunApp ==
    /\ op # "idle"
    /\ op' = "idle"
    /\ req' = NoRequest
    /\ res' = None
    /\ UNCHANGED <<gw, cache, now, session>>

NextApp ==
    \/ MarketMoves
    \/ Tick
    \/ AppTop
    \/ AppSearch
    \/ RerunApp

SpecApp == InitApp /\ [][NextApp]_vars

-----------------------------------------------------------------------------
(* The reference catalog and its search.  A catalog is the sequence of the
   countries of global_etf_database in the order of the dict literal, each
   with its ETFs in order; of the source's countries the model keeps those
   that share symbols, and of their ETFs a few.  A name is its text and the
   words of its upper-case form: a search term is matched against whole
   words where the code tests for a substring. *)

(* global_etf_database of etf_data.py *)
DatabaseOfEtfData ==
    << [country |-> "USA",
       etfs |-> << [symbol |-> "SPY", name |-> [text |-> "SPDR S&P 500 ETF Trust", words |-> {"500", "ETF", "S&P", "SPDR", "TRUST"}]],
                  [symbol |-> "VOO", name |-> [text |-> "Vanguard S&P 500 ETF", words |-> {"500", "ETF", "S&P", "VANGUARD"}]],
                  [symbol |-> "VTEB", name |-> [text |-> "Vanguard Tax-Exempt Bond ETF", words |-> {"BOND", "ETF", "TAX-EXEMPT", "VANGUARD"}]] >>],
       [country |-> "JAPAN",
       etfs |-> << [symbol |-> "EWJ", name |-> [text |-> "iShares MSCI Japan ETF", words |-> {"ETF", "ISHARES", "JAPAN", "MSCI"}]],
                  [symbol |-> "VEA", name |-> [text |-> "Vanguard FTSE Developed Markets ETF (includes Japan)", words |-> {"DEVELOPED", "ETF", "FTSE", "INCLUDES", "JAPAN", "MARKETS", "VANGUARD"}]],
                  [symbol |-> "IEFA", name |-> [text |-> "iShares Core MSCI EAFE ETF (includes Japan)", words |-> {"CORE", "EAFE", "ETF", "INCLUDES", "ISHARES", "JAPAN", "MSCI"}]] >>],
       [country |-> "INTERNATIONAL_DEVELOPED",
       etfs |-> << [symbol |-> "EFA", name |-> [text |-> "iShares MSCI EAFE ETF", words |-> {"EAFE", "ETF", "ISHARES", "MSCI"}]],
                  [symbol |-> "VEA", name |-> [text |-> "Vanguard FTSE Developed Markets ETF", words |-> {"DEVELOPED", "ETF", "FTSE", "MARKETS", "VANGUARD"}]],
                  [symbol |-> "IEFA", name |-> [text |-> "iShares Core MSCI EAFE IMI Index ETF", words |-> {"CORE", "EAFE", "ETF", "IMI", "INDEX", "ISHARES", "MSCI"}]],
                  [symbol |-> "VTEB", name |-> [text |-> "Vanguard Tax-Exempt Bond ETF", words |-> {"BOND", "ETF", "TAX-EXEMPT", "VANGUARD"}]] >>] >>

(* global_etf_database of etf_data_fixed.py *)
DatabaseOfEtfDataFixed ==
    << [country |-> "USA",
       etfs |-> << [symbol |-> "SPY", name |-> [text |-> "SPDR S&P 500 ETF Trust", words |-> {"500", "ETF", "S&P", "SPDR", "TRUST"}]],
                  [symbol |-> "VOO", name |-> [text |-> "Vanguard S&P 500 ETF", words |-> {"500", "ETF", "S&P", "VANGUARD"}]] >>],
       [country |-> "JAPAN",
       etfs |-> << [symbol |-> "EWJ", name |-> [text |-> "iShares MSCI Japan ETF", words |-> {"ETF", "ISHARES", "JAPAN", "MSCI"}]],
                  [symbol |-> "DXJ", name |-> [text |-> "WisdomTree Japan Hedged Equity Fund", words |-> {"EQUITY", "FUND", "HEDGED", "JAPAN", "WISDOMTREE"}]] >>],
       [country |-> "INTERNATIONAL",
       etfs |-> << [symbol |-> "EFA", name |-> [text |-> "iShares MSCI EAFE ETF", words |-> {"EAFE", "ETF", "ISHARES", "MSCI"}]],
                  [symbol |-> "VEA", name |-> [text |-> "Vanguard FTSE Developed Markets ETF", words |-> {"DEVELOPED", "ETF", "FTSE", "MARKETS", "VANGUARD"}]],
                  [symbol |-> "IEFA", name |-> [text |-> "iShares Core MSCI EAFE IMI Index ETF", words |-> {"CORE", "EAFE", "ETF", "IMI", "INDEX", "ISHARES", "MSCI"}]] >>] >>

Database(analyzer) ==
    IF analyzer = "etf_data" THEN DatabaseOfEtfData ELSE DatabaseOfEtfDataFixed

RECURSIVE Items(_)
(* the (symbol, name) pairs of the countries' dicts, one after the other *)
Items(db) == IF db = <<>> THEN <<>> ELSE Head(db).etfs \o Items(Tail(db))

IsFirstOfKey(e) == e.first

(* extended_etf_list: dict.update country by country, so a symbol stays where
   it was first inserted and carries the name inserted last *)
Flattened(db) ==
    LET all == Items(db)
        LastOf(sym) ==
            all[CHOOSE j \in DOMAIN all :
                    /\ all[j].symbol = sym
                    /\ \A k \in (j + 1)..Len(all) : all[k].symbol # sym]
        marked == [i \in DOMAIN all |->
                     [symbol |-> all[i].symbol,
                      name |-> LastOf(all[i].symbol).name,
                      first |-> \A j \in 1..(i - 1) : all[j].symbol # all[i].symbol]]
        firsts == SelectSeq(marked, IsFirstOfKey)
    IN  [i \in DOMAIN firsts |-> [symbol |-> firsts[i].symbol, name |-> firsts[i].name]]

Countries(db) == {db[i].country : i \in DOMAIN db}

EtfsOf(db, c) == (CHOOSE i \in DOMAIN db : db[i].country = c)

HasSymbol(etfs, sym) == \E i \in DOMAIN etfs : etfs[i].symbol = sym

(* search_term in symbol.upper() or search_term in name.upper() *)
Matches(search_term, e) ==
    search_term = "" \/ search_term = e.symbol \/ search_term \in e.name.words

(* the first country of the database that holds the symbol, else "Unknown" *)
EtfCountry(db, sym) ==
    IF \E i \in DOMAIN db : HasSymbol(db[i].etfs, sym)
    THEN db[CHOOSE i \in DOMAIN db :
                /\ HasSymbol(db[i].etfs, sym)
                /\ \A j \in 1..(i - 1) : ~HasSymbol(db[j].etfs, sym)].country
    ELSE "Unknown"

Hit(e) == e.hit

(* ETFAnalyzer.search_etf_by_country(search_term, country) *)
SearchEtfByCountry(db, search_term, country) ==
    LET etf_dict == IF country # "None" /\ country \in Countries(db)
                    THEN db[EtfsOf(db, country)].etfs
                    ELSE Flattened(db)
        marked == [i \in DOMAIN etf_dict |->
                     [symbol |-> etf_dict[i].symbol,
                      name |-> etf_dict[i].name,
                      country |-> EtfCountry(db, etf_dict[i].symbol),
                      hit |-> Matches(search_term, etf_dict[i])]]
        hits == SelectSeq(marked, Hit)
    IN  [i \in DOMAIN hits |->
            [symbol |-> hits[i].symbol, name |-> hits[i].name, country |-> hits[i].country]]

Analyzers == {"etf_data", "etf_data_fixed"}

SearchTermsByCountry ==
    {"", "SPY", "VEA", "VTEB", "IEFA", "EWJ", "VANGUARD", "ISHARES", "JAPAN", "XYZ"}

CountryFilters == {"None", "USA", "JAPAN", "INTERNATIONAL_DEVELOPED", "INTERNATIONAL"}

SearchCall ==
    /\ op = "idle"
    /\ \E analyzer \in Analyzers, search_term \in SearchTermsByCountry,
          country \in CountryFilters :
        /\ op' = "search_etf_by_country"
        /\ req' = [symbol |-> "none", analyzer |-> analyzer, term |-> search_term,
                   country |-> country]
        /\ res' = [kind |-> "search",
                   results |-> SearchEtfByCountry(Database(analyzer), search_term, country)]
    /\ UNCHANGED <<gw, cache, now, session>>

AllEtfs ==
    /\ op = "idle"
    /\ \E analyzer \in Analyzers :
        /\ op' = "get_all_etfs"
        /\ req' = [symbol |-> "none", analyzer |-> analyzer]
        /\ res' = [kind |-> "catalog", etfs |-> Flattened(Database(analyzer))]
    /\ UNCHANGED <<gw, cache, now, session>>

NextSearch ==
    \/ SearchCall
    \/ AllEtfs
    \/ Rerun

SpecSearch == Init /\ [][NextSearch]_vars

-----------------------------------------------------------------------------
(* calculate_future_value.  The arguments are Python numbers: annual_rate in
   percent, whole years. *)

(* ((1 + monthly_rate) ** months - 1) / monthly_rate for the power growth and
   the rate, both in units of 1/FINE: a division of Python floats, which
   raises ZeroDivisionError for the rate 0.0 *)
AnnuityFactor(growth, monthly_rate) ==
    IF monthly_rate = 0 THEN Exc
    ELSE Fin((growth - FINE) \div (monthly_rate \div SCALE))

CalculateFutureValue(principal, annual_rate, years, monthly_contribution) ==
    LET monthly_rate == (annual_rate * FINE) \div (100 * 12)
        months == years * 12
        \* (1 + monthly_rate) ** months, a year of twelve months at a time
        growth == FinePowInt(FinePowInt(FINE + monthly_rate, 12), years)
        fv_principal == ScaleBy(FromInt(principal), Fine(growth))
        fv_contributions ==
            IF monthly_contribution > 0
            THEN NumMul(FromInt(monthly_contribution), AnnuityFactor(growth, monthly_rate))
            ELSE Fin(0)
        total_fv == NumAdd(fv_principal, fv_contributions)
        total_invested == FromInt(principal + monthly_contribution * months)
        total_gain == NumSub(total_fv, total_invested)
    IN  IF IsExc(fv_contributions) THEN None
        ELSE [kind |-> "future_value",
              future_value |-> total_fv,
              total_invested |-> total_invested,
              total_gain |-> total_gain,
              gain_percentage |->
                  IF NumGt(total_invested, Fin(0))
                  THEN NumMul(PyDiv(total_gain, total_invested), FromInt(100))
                  ELSE Fin(0)]

FuturePrincipals == {500, 1000, 2000, 5000}

AnnualRates == {0, 6, 12}

WholeYears == {1, 2, 3}

MonthlyContributions == {0, 100, 200}

FutureValue ==
    /\ op = "idle"
    /\ \E principal \in FuturePrincipals, annual_rate \in AnnualRates,
          years \in WholeYears, monthly_contribution \in MonthlyContributions :
        /\ op' = "calculate_future_value"
        /\ req' = [symbol |-> "none", principal |-> principal, annual_rate |-> annual_rate,
                   years |-> years, monthly_contribution |-> monthly_contribution]
        /\ res' = CalculateFutureValue(principal, annual_rate, years, monthly_contribution)
    /\ UNCHANGED <<gw, cache, now, session>>

NextFuture ==
    \/ FutureValue
    \/ Rerun

SpecFuture == Init /\ [][NextFuture]_vars

-----------------------------------------------------------------------------
(* Calls of _create_growth_chart_data on a frame the caller holds: gw[1].hist
   is the frame, with its rows and the names of its columns. *)

ChartLens ==
    {0, 1, MaxPoints - 1, MaxPoints, MaxPoints + 1, 2 * MaxPoints - 1, 2 * MaxPoints,
     2 * MaxPoints + 1, 3 * MaxPoints - 1, 3 * MaxPoints, 3 * MaxPoints + 1}

(* n daily observations from day 0, the price rising by slope a day *)
ChartFrame(n, slope) ==
    [exc |-> FALSE,
     rows |-> [i \in 1..n |-> [d |-> i - 1, p |-> 100 + slope * (i - 1)]],
     columns |-> {"Close"}]

ChartPrincipals == {1000, 2000}

ChartRatios == {Fin(0), Fin(SCALE \div 100)}

InitChart ==
    /\ \E n \in ChartLens, slope \in {0, 1} :
          gw = <<[hist |-> ChartFrame(n, slope), info |-> InfoRaises]>>
    /\ op = "idle"
    /\ req = NoRequest
    /\ res = None
    /\ cache = NoEntry
    /\ now = 0
    /\ session = NoSession

(* the value of first_price the callers pass: hist['Close'].iloc[0] *)
FirstClose(rows) == IF Len(rows) = 0 THEN NaN ELSE FromInt(First(rows).p)

ChartCall ==
    /\ op = "idle"
    /\ \E initial \in ChartPrincipals, expense_ratio \in ChartRatios :
        /\ op' = "create_growth_chart_data"
        /\ req' = [symbol |-> "SPY", initial |-> initial, expense_ratio |-> expense_ratio]
        /\ res' = CreateGrowthChartData(gw[1].hist.rows, FromInt(initial),
                                        FirstClose(gw[1].hist.rows), expense_ratio)
    /\ gw' = [gw EXCEPT ![1].hist = FrameAfterChart(@)]
    /\ UNCHANGED <<cache, now, session>>

(* the same call once more, on the frame the first call left *)
ChartAgain ==
    /\ op = "create_growth_chart_data"
    /\ op' = "create_growth_chart_data_again"
    /\ req' = req
    /\ res' = [first |-> res,
               second |-> CreateGrowthChartData(gw[1].hist.rows, FromInt(req.initial),
                                                FirstClose(gw[1].hist.rows),
                                                req.expense_ratio)]
    /\ gw' = [gw EXCEPT ![1].hist = FrameAfterChart(@)]
    /\ UNCHANGED <<cache, now, session>>

RerunChart ==
    /\ op = "create_growth_chart_data_again"
    /\ op' = "idle"
    /\ req' = NoRequest
    /\ res' = None
    /\ UNCHANGED <<gw, cache, now, session>>

NextChart ==
    \/ ChartCall
    \/ ChartAgain
    \/ RerunChart

SpecChart == InitChart /\ [][NextChart]_vars

-----------------------------------------------------------------------------
(* Properties of the single-symbol operations, under Spec *)

Hist == gw[1].hist

Info == gw[1].info

GrowthOps == {"calculate_investment_growth", "calculate_investment_growth_fixed"}

CagrOps == {"calculate_cagr", "calculate_cagr_fixed"}

(* no rows, one row, or first and last rows on the same date *)
InsufficientSeries(hist) ==
    /\ ~hist.exc
    /\ (Len(hist.rows) <= 1 \/ First(hist.rows).d = Last(hist.rows).d)

(* at least two rows, a positive first price, the last date after the first *)
GoodSeries(hist) ==
    /\ ~hist.exc
    /\ Len(hist.rows) >= 2
    /\ First(hist.rows).p > 0
    /\ Last(hist.rows).d > First(hist.rows).d

(* C1: for every principal and every expense ratio, calculate_investment_growth
   and calculate_cagr return no result when the price series is empty, has
   exactly one observation, or has its first and last observations on the
   same date *)
C1_InsufficientSeriesRejected ==
    (op \in ({"calculate_investment_growth"} \cup CagrOps) /\ InsufficientSeries(Hist))
        => IsNone(res)

(* a growth computation on two observations of one date, prices 100 and 200,
   principal 1000 and expense ratio 1 %, that returned no result *)
C1_Witness ==
    /\ op = "calculate_investment_growth"
    /\ ~Hist.exc
    /\ Len(Hist.rows) = 2
    /\ First(Hist.rows).d = Last(Hist.rows).d
    /\ First(Hist.rows).p = 100
    /\ Last(Hist.rows).p = 200
    /\ Info.er = Val(100)
    /\ req.initial = 1000
    /\ req.include
    /\ IsNone(res)

(* C2: a price series whose first close price is 0 is rejected:
   calculate_investment_growth and quick_calculation return no result for it *)
C2_ZeroFirstPriceRejected ==
    (/\ op \in {"calculate_investment_growth", "quick_calculation"}
     /\ ~Hist.exc
     /\ Len(Hist.rows) >= 1
     /\ First(Hist.rows).p = 0)
        => IsNone(res)

(* the expense ratio the metadata states is negative or at least 1 *)
ExpenseRatioOutOfRange(info) ==
    /\ ~info.exc
    /\ info.er.st = "val"
    /\ (info.er.v < 0 \/ info.er.v >= SCALE)

(* C3: every call of the growth computation with a principal <= 0, or with an
   expense ratio outside [0, 1), returns no result; stated for the calls whose
   price series is valid, where nothing else could reject the call *)
C3_InvalidInputRejected ==
    (/\ op \in GrowthOps
     /\ GoodSeries(Hist)
     /\ (req.initial <= 0 \/ ExpenseRatioOutOfRange(Info)))
        => IsNone(res)

(* the principal is positive and the expense ratio, when stated, in [0, 1) *)
ValidArguments ==
    op \in GrowthOps => (req.initial > 0 /\ ~ExpenseRatioOutOfRange(Info))

(* C4: the growth computation returns no result whenever the time between the
   first and the last observation is <= 0 years, a last date earlier than the
   first included; stated for positive prices and valid arguments *)
C4_NonPositiveYearsRejected ==
    (/\ op \in (GrowthOps \cup CagrOps)
     /\ ~Hist.exc
     /\ Len(Hist.rows) >= 1
     /\ First(Hist.rows).p > 0
     /\ Last(Hist.rows).p > 0
     /\ ValidArguments
     /\ Last(Hist.rows).d <= First(Hist.rows).d)
        => IsNone(res)

(* C5: missing optional metadata never makes a computation fail: with the
   expense ratio absent or null the growth computation returns a result that
   carries the fallback 0.5 %, and a ranking row is produced whether or not
   the assets and the inception date are stated, the assets shown as N/A when
   missing *)
C5_MissingMetadataDegrades ==
    /\ (/\ op = "calculate_investment_growth"
        /\ GoodSeries(Hist)
        /\ req.initial > 0
        /\ ~Info.exc
        /\ Info.er.st \in {"absent", "null"})
            => (~IsNone(res) /\ res.expense_ratio = Fin(SCALE \div 2))
    /\ (/\ op = "calculate_investment_growth_fixed"
        /\ GoodSeries(Hist)
        /\ Len(Hist.rows) >= MinRows
        /\ ~Info.exc
        /\ Info.er.st \in {"absent", "null"})
            => (~IsNone(res) /\ res.expense_ratio = Fin(SCALE \div 2))
    /\ (/\ op = "get_top_etfs_row"
        /\ GoodSeries(Hist)
        /\ ~Info.exc)
            => (/\ ~IsNone(res)
                /\ Info.aum.st \in {"absent", "null"} => res.Aum.st = "N/A")

(* a call of the gateway that the operation makes raised *)
GatewayRaised ==
    \/ op \in {"calculate_investment_growth", "get_etf_summary"} /\ (Hist.exc \/ Info.exc)
    \/ op \in ({"quick_calculation", "get_risk_metrics"} \cup CagrOps) /\ Hist.exc
    \/ op \in {"get_etf_info", "get_etf_info_fixed"} /\ Info.exc

(* C6: no single-symbol operation hides an error behind a zero or a default:
   whenever a step of it raises, it returns no result *)
C6_NoHiddenError == GatewayRaised => IsNone(res)

-----------------------------------------------------------------------------
(* Properties of the comparisons, under SpecCompare *)

Leg1 == CalculateInvestmentGrowth(gw[1].hist, gw[1].info, 1000, TRUE)

Leg2 == CalculateInvestmentGrowth(gw[2].hist, gw[2].info, 1000, TRUE)

FixedLeg1 == FixedInvestmentGrowth(req.etf1, gw[1].hist, gw[1].info, 1000)

FixedLeg2 == FixedInvestmentGrowth(req.etf2, gw[2].hist, gw[2].info, 1000)

ComparisonShown == res.kind = "page" /\ res.shown = "comparison"

(* C7: a comparison is all or nothing: compare_etfs returns the results of
   both symbols or nothing, and the page "Compare ETFs" shows the table of
   both results or an error; when either leg fails nothing of the other is
   returned or shown *)
C7_AllOrNothing ==
    /\ op = "compare_etfs" =>
        \/ IsNone(res)
        \/ /\ ~IsNone(Leg1)
           /\ ~IsNone(Leg2)
           /\ DOMAIN res.results = {req.etf1, req.etf2}
           /\ res.results[req.etf1] = Leg1
           /\ res.results[req.etf2] = Leg2
    /\ op = "app_fixed_compare" =>
        \/ res.shown = "error"
        \/ /\ ~IsNone(FixedLeg1)
           /\ ~IsNone(FixedLeg2)
           /\ res.table = <<FixedLeg1, FixedLeg2>>

(* compare_etfs returned nothing although the first leg has a result *)
C7_Witness ==
    /\ op = "compare_etfs"
    /\ req.etf1 # req.etf2
    /\ ~IsNone(Leg1)
    /\ IsNone(Leg2)
    /\ IsNone(res)

(* C8: for every pair of symbols, equal or distinct, whenever the growth
   computation succeeds for both, compare_etfs returns the pair of results;
   stated for two valid price series *)
C8_SucceedsWhenBothLegsDo ==
    (/\ op = "compare_etfs"
     /\ GoodSeries(gw[1].hist)
     /\ GoodSeries(gw[2].hist)
     /\ ~IsNone(Leg1)
     /\ ~IsNone(Leg2))
        => ~IsNone(res)

(* C9: in a comparison whose two net values differ (one of them at least a
   finite amount), the winner is the symbol with the strictly higher net
   value, and the difference shown is the winner's net value minus the
   loser's, greater than 0 *)
C9_WinnerHasHigherNetValue ==
    (/\ ComparisonShown
     /\ ~NumEq(res.net1, res.net2)
     /\ (IsFin(res.net1) \/ IsFin(res.net2))) =>
        /\ \/ res.winner = req.etf1 /\ NumGt(res.net1, res.net2)
           \/ res.winner = req.etf2 /\ NumGt(res.net2, res.net1)
        /\ NumGt(res.winner_value, res.loser_value)
        /\ res.difference = NumSub(res.winner_value, res.loser_value)
        /\ NumGt(res.difference, Fin(0))

(* C10 as stated: when the two net values are equal (two equal finite
   amounts), the first compared ETF is declared the winner *)
C10_FirstWinsTie ==
    (ComparisonShown /\ IsFin(res.net1) /\ NumEq(res.net1, res.net2))
        => res.winner = req.etf1

(* C10, amended: when the two net values are equal, the second compared ETF
   (etf2) is declared the winner, with difference 0 for finite values *)
C10_SecondWinsTie ==
    (ComparisonShown /\ NumEq(res.net1, res.net2)) =>
        /\ res.winner = req.etf2
        /\ res.winner_value = res.net2
        /\ res.loser_value = res.net1

(* a comparison of two distinct symbols with equal finite net values *)
C10_Witness ==
    /\ ComparisonShown
    /\ req.etf1 # req.etf2
    /\ IsFin(res.net1)
    /\ NumEq(res.net1, res.net2)
    /\ res.winner = req.etf2

-----------------------------------------------------------------------------
(* Properties of the rankings, under SpecRank *)

RankOps == {"get_top_etfs", "get_top_etfs_fixed", "top_page_fixed"}

(* the catalog the ranking of this state iterates *)
RankedCatalog ==
    CASE op = "get_top_etfs" -> EtfListOrder
      [] op = "get_top_etfs_fixed" -> GlobalEtfDatabase(req.symbol)
      [] op = "top_page_fixed" -> GLOBAL_ETF_DATABASE(req.symbol)
      [] OTHER -> <<>>

PositionOf(symbol) == CHOOSE i \in DOMAIN RankedCatalog : RankedCatalog[i] = symbol

AnswerOf(symbol) == gw[PositionOf(symbol)]

(* the symbols of the catalogs in ascending (code point) order *)
AlphaOrder ==
    <<"AGG", "BND", "EEM", "EFA", "EPI", "GLD", "HYG", "INDA", "INDY", "IVV",
      "IWM", "QQQ", "SCHD", "SPY", "TLT", "VB", "VGT", "VNQ", "VOO", "VTI",
      "VUKE.L", "VUSA.L", "VWRL.L", "VYM", "XLE", "XLF", "XLK", "XLV">>

SymbolIndex(symbol) == CHOOSE i \in DOMAIN AlphaOrder : AlphaOrder[i] = symbol

(* the annualised growth of a symbol after the drag of its stated expense
   ratio: (1 + cagr) (1 - expense ratio) - 1, in percent *)
NetCagrOf(a) ==
    LET c == CalculateCagr(a.hist)
        er == IF ~a.info.exc /\ a.info.er.st = "val" THEN a.info.er.v ELSE 0
        factor == NumAdd(Fin(SCALE), NpDiv(c.cagr, FromInt(100)))
    IN  NumMul(NumSub(NumMul(factor, Fin(SCALE - er)), Fin(SCALE)), FromInt(100))

(* C11: the rows of a ranking are in descending order of net CAGR, and rows
   of equal net CAGR are in ascending order of symbol. *)
C11_RankedByNetCagr ==
    op \in RankOps =>
        \A i, j \in DOMAIN res.rows :
            i < j =>
                LET a == NetCagrOf(AnswerOf(res.rows[i].Symbol))
                    b == NetCagrOf(AnswerOf(res.rows[j].Symbol))
                IN  \/ NumGt(a, b)
                    \/ /\ NumEq(a, b)
                       /\ SymbolIndex(res.rows[i].Symbol) < SymbolIndex(res.rows[j].Symbol)

(* the symbols the ranking of this state asks the gateway about *)
Iterated ==
    CASE op = "get_top_etfs" -> EtfListOrder
      [] op = "get_top_etfs_fixed" -> Take(GlobalEtfDatabase(req.symbol), TopLimit)
      [] op = "top_page_fixed" -> Take(GLOBAL_ETF_DATABASE(req.symbol), PageLimit)
      [] OTHER -> <<>>

(* the row the loop body of the ranking of this state builds for one symbol *)
RowFor(i) ==
    CASE op = "get_top_etfs" -> TopEtfRow(RankedCatalog[i], gw[i].info, gw[i].hist)
      [] op = "get_top_etfs_fixed" -> TopEtfRowFixed(RankedCatalog[i], gw[i].info, gw[i].hist)
      [] op = "top_page_fixed" -> PageRow(RankedCatalog[i], gw[i].hist, gw[i].info)
      [] OTHER -> None

Ranked(symbol) == \E k \in DOMAIN res.rows : res.rows[k].Symbol = symbol

(* the metadata or the history raises, or the series is empty or too short *)
FetchFails(a) == a.info.exc \/ a.hist.exc \/ InsufficientSeries(a.hist)

(* C12: a symbol whose metadata or price fetch raises, or whose series is
   empty or insufficient, has no row in the ranking, and the symbols after
   it in the iteration are still processed and ranked. *)
C12_BestEffort ==
    op \in RankOps =>
        \A i \in DOMAIN Iterated :
            FetchFails(gw[i]) =>
                /\ ~Ranked(Iterated[i])
                /\ \A j \in DOMAIN Iterated :
                        (i < j /\ IsRow(RowFor(j))) => Ranked(Iterated[j])

(* C13: the ranking holds exactly the symbols of its catalog whose fetch and
   CAGR computation succeed, each of them once, whatever the size of the
   catalog. *)
C13_CompleteOverCatalog ==
    op \in RankOps =>
        \A i \in DOMAIN RankedCatalog :
            Cardinality({k \in DOMAIN res.rows : res.rows[k].Symbol = RankedCatalog[i]})
                = IF IsRow(RowFor(i)) THEN 1 ELSE 0

-----------------------------------------------------------------------------
(* Properties of the growth computation, under Spec *)

IsGrowth == op = "calculate_investment_growth" /\ ~IsNone(res)

(* the expense ratio the computation reads: the stated one, 0.5 % when the
   key is absent *)
StatedRatio == InfoGet(Info.er, Val(50)).v

NoFees == ~req.include \/ StatedRatio <= 0

(* C14: with an expense ratio <= 0, or with include_expense_ratio = False,
   the result has net value = gross value, net total return = gross total
   return, net CAGR = gross CAGR, total_fees = 0, and at every chart point
   the net portfolio value equals the gross portfolio value. *)
C14_ZeroFeeIdentity ==
    (IsGrowth /\ NoFees) =>
        /\ NumEq(res.net_current_value, res.gross_current_value)
        /\ NumEq(res.net_total_return, res.gross_total_return)
        /\ NumEq(res.net_cagr, res.gross_cagr)
        /\ res.total_fees = Fin(0)
        /\ \A i \in DOMAIN res.growth_data.points :
                NumEq(res.growth_data.points[i].Portfolio_Value,
                      res.growth_data.points[i].Gross_Portfolio_Value)

NumGe(a, b) == NumGt(a, b) \/ NumEq(a, b)

(* expense ratios of [0, 1) to compare with: 0, 0.5 %, 1 %, 10 % *)
RatioGrid == {0, 50, 100, 1000}

(* the growth computation of this state, had the expense ratio been r *)
WithRatio(r) ==
    CalculateInvestmentGrowth(Hist, [Info EXCEPT !.er = Val(r)], req.initial, req.include)

(* C15: for a fixed series and principal the net value is non-increasing in
   the expense ratio over [0, 1), strictly decreasing from r1 to r2 > r1
   when the elapsed years are > 0, and total_fees is non-decreasing in the
   expense ratio and never negative.  Stated for the series of positive
   prices. *)
C15_FeeMonotonicity ==
    (/\ IsGrowth
     /\ req.include
     /\ First(Hist.rows).p > 0
     /\ Last(Hist.rows).p > 0
     /\ StatedRatio >= 0
     /\ StatedRatio < SCALE) =>
        /\ NumGe(res.total_fees, Fin(0))
        /\ \A r2 \in RatioGrid :
                r2 > StatedRatio =>
                    /\ ~IsNone(WithRatio(r2))
                    /\ NumGe(res.net_current_value, WithRatio(r2).net_current_value)
                    /\ NumGt(res.years, Fin(0)) =>
                            NumGt(res.net_current_value, WithRatio(r2).net_current_value)
                    /\ NumGe(WithRatio(r2).total_fees, res.total_fees)

(* the factors the principal is multiplied by *)
Factors == {2, 3}

(* the growth computation of this state, had the principal been k times it *)
Scaled(k) ==
    IF op = "calculate_investment_growth"
    THEN CalculateInvestmentGrowth(Hist, Info, k * req.initial, req.include)
    ELSE FixedInvestmentGrowth(req.symbol, Hist, Info, k * req.initial)

Times(k, x) == NumMul(FromInt(k), x)

(* C16: the growth computation is linear in the principal: for k > 0 the
   gross value, the net value and total_fees computed for k times the
   principal are k times those computed for the principal, and the total
   returns and the CAGR are the same. *)
C16_LinearInPrincipal ==
    (op \in GrowthOps /\ ~IsNone(res)) =>
        \A k \in Factors :
            /\ ~IsNone(Scaled(k))
            /\ NumEq(Scaled(k).total_fees, Times(k, res.total_fees))
            /\ IF op = "calculate_investment_growth"
               THEN /\ NumEq(Scaled(k).gross_current_value, Times(k, res.gross_current_value))
                    /\ NumEq(Scaled(k).net_current_value, Times(k, res.net_current_value))
                    /\ NumEq(Scaled(k).gross_total_return, res.gross_total_return)
                    /\ NumEq(Scaled(k).net_total_return, res.net_total_return)
                    /\ NumEq(Scaled(k).gross_cagr, res.gross_cagr)
                    /\ NumEq(Scaled(k).net_cagr, res.net_cagr)
               ELSE /\ NumEq(Scaled(k).gross_value, Times(k, res.gross_value))
                    /\ NumEq(Scaled(k).net_value, Times(k, res.net_value))
                    /\ NumEq(Scaled(k).gross_return, res.gross_return)
                    /\ NumEq(Scaled(k).net_return, res.net_return)
                    /\ NumEq(Scaled(k).cagr, res.cagr)

(* exactly two observations, both prices > 0, the second date later *)
TwoPoints ==
    /\ ~Hist.exc
    /\ Len(Hist.rows) = 2
    /\ Hist.rows[1].p > 0
    /\ Hist.rows[2].p > 0
    /\ Hist.rows[2].d > Hist.rows[1].d

(* ((p1 / p0) ^ (1 / years) - 1) * 100 *)
CagrIdentity ==
    NumMul(NumSub(RootPow(NpDiv(FromInt(Hist.rows[2].p), FromInt(Hist.rows[1].p)),
                          YearsOf(Hist.rows[2].d - Hist.rows[1].d)),
                  Fin(SCALE)),
           FromInt(100))

(* C17: for a series of exactly two observations with prices > 0 and
   years > 0, the growth computation with expense ratio 0 yields
   gross_cagr = ((p1 / p0) ^ (1 / years) - 1) * 100 and net_cagr = gross_cagr,
   the value calculate_cagr returns for the series. *)
C17_CagrIdentity ==
    (op = "calculate_investment_growth" /\ TwoPoints /\ Info.er = Val(0) /\ ~Info.exc) =>
        /\ ~IsNone(res)
        /\ NumEq(res.gross_cagr, CagrIdentity)
        /\ NumEq(res.net_cagr, res.gross_cagr)
        /\ ~IsNone(CalculateCagr(Hist))
        /\ NumEq(CalculateCagr(Hist).cagr, res.gross_cagr)

ValueOps == GrowthOps \cup {"quick_calculation"}

(* principal * last_price / first_price for the series of this state *)
GrossIdentity ==
    NpDiv(NumMul(FromInt(req.initial), FromInt(Last(Hist.rows).p)),
          FromInt(First(Hist.rows).p))

(* (gross value / principal - 1) * 100 *)
ReturnIdentity(gross) ==
    NumMul(NumSub(NpDiv(gross, FromInt(req.initial)), Fin(SCALE)), FromInt(100))

(* the series from 2020-01-01 at 100 to 2025-01-01 at 200, principal 1000,
   expense ratio 0 *)
ScenarioOne ==
    /\ Hist.rows \in ScenarioSeries
    /\ req.initial = 1000
    /\ op \in GrowthOps => (~Info.exc /\ Info.er = Val(0))

(* C18: on every series on which they succeed the gross value is
   principal * last_price / first_price in calculate_investment_growth, in
   quick_calculation and in calculate_investment_growth of app_fixed.py, and
   the gross total return is (gross value / principal - 1) * 100; for the
   series [(2020-01-01, 100), (2025-01-01, 200)], principal 1000 and expense
   ratio 0 the gross value is 2000, the net value 2000 and total_fees 0. *)
C18_GrossValue ==
    (op \in ValueOps /\ ~IsNone(res)) =>
        /\ op = "calculate_investment_growth" =>
                /\ NumEq(res.gross_current_value, GrossIdentity)
                /\ NumEq(res.gross_total_return, ReturnIdentity(res.gross_current_value))
                /\ ScenarioOne =>
                        /\ res.gross_current_value = FromInt(2000)
                        /\ res.net_current_value = FromInt(2000)
                        /\ res.total_fees = Fin(0)
        /\ op = "quick_calculation" =>
                /\ NumEq(res.current_value, GrossIdentity)
                /\ ScenarioOne => res.current_value = FromInt(2000)
        /\ op = "calculate_investment_growth_fixed" =>
                /\ NumEq(res.gross_value, GrossIdentity)
                /\ NumEq(res.gross_return, ReturnIdentity(res.gross_value))
                /\ ScenarioOne =>
                        /\ res.gross_value = FromInt(2000)
                        /\ res.net_value = FromInt(2000)
                        /\ res.total_fees = Fin(0)

-----------------------------------------------------------------------------
(* The end-to-end scenarios, under Spec *)

YearOps == {"calculate_investment_growth", "calculate_cagr"}

DaysApart == Last(Hist.rows).d - First(Hist.rows).d

(* C19 as stated: years is (last date - first date in days) / 365.25, and for
   the series [(2020-01-01, 100), (2025-01-01, 200)] it is 5.0 exactly. *)
C19_FiveYearsExactly ==
    (op \in YearOps /\ ~IsNone(res) /\ Hist.rows \in ScenarioSeries) =>
        res.years = FromInt(5)

(* C19, amended: years is (last date - first date in days) / 365.25, to the
   nearest unit of the model, and for the series [(2020-01-01, 100),
   (2025-01-01, 200)], whose dates are 1827 days apart, it is 5.0021 and not
   5.0; calculate_cagr takes the root of that number of years. *)
C19_YearsByDays ==
    (op \in YearOps /\ ~IsNone(res)) =>
        /\ res.years.k = "fin"
        /\ Abs(36525 * res.years.v - 100 * SCALE * DaysApart) * 2 <= 36525
        /\ Hist.rows \in ScenarioSeries =>
                /\ DaysApart = 1827
                /\ res.years = Fin(5 * SCALE + 21)
        /\ op = "calculate_cagr" =>
                res.cagr =
                    NumMul(NumSub(RootPow(NpDiv(FromInt(Last(Hist.rows).p),
                                                FromInt(First(Hist.rows).p)),
                                          res.years),
                                  Fin(SCALE)),
                           FromInt(100))

C19_Witness ==
    /\ op \in YearOps
    /\ ~IsNone(res)
    /\ Hist.rows \in ScenarioSeries
    /\ res.years = Fin(5 * SCALE + 21)

(* a gross value of 2000, an expense ratio of 1 % and 5.0 years *)
FiveYearCase ==
    /\ op \in GrowthOps
    /\ ~IsNone(res)
    /\ op = "calculate_investment_growth" =>
            (req.include /\ res.gross_current_value = FromInt(2000))
    /\ op = "calculate_investment_growth_fixed" => res.gross_value = FromInt(2000)
    /\ res.expense_ratio = FromInt(1)
    /\ res.years = FromInt(5)

NetValue ==
    IF op = "calculate_investment_growth" THEN res.net_current_value ELSE res.net_value

(* an amount of dollars and cents *)
Cents(dollars, cents) == Fin(dollars * SCALE + cents * (SCALE \div 100))

(* C20 as stated: for gross value 2000, expense ratio 0.01 and 5 years the
   net value gross * (1 - expense_ratio) ^ years is 1902.97 and total_fees is
   97.03, to the cent. *)
C20_NetValue190297 ==
    FiveYearCase =>
        /\ Round2(NetValue) = Cents(1902, 97)
        /\ Round2(res.total_fees) = Cents(97, 3)

(* C20, amended: for gross value 2000, expense ratio 0.01 and 5 years the
   net value gross * (1 - expense_ratio) ^ years is 2000 * 0.99 ^ 5 = 1901.98
   and total_fees is 98.02, to the cent. *)
C20_NetValue190198 ==
    FiveYearCase =>
        /\ Round2(NetValue) = Cents(1901, 98)
        /\ Round2(res.total_fees) = Cents(98, 2)

C20_Witness == FiveYearCase /\ Round2(res.total_fees) = Cents(98, 2)

-----------------------------------------------------------------------------
(* Numeric semantics and presentation, under Spec *)

(* the fee multiplier on the unrounded expense ratio and elapsed years *)
UnroundedMultiplier ==
    PyPow(NumSub(Fin(SCALE), Fin(StatedRatio)), YearsOf(DaysApart))

UnroundedNet == ScaleBy(res.gross_value, UnroundedMultiplier)

(* C21: no rounded quantity is an input of a later computation: net value,
   net return and total fees of app_fixed's calculate_investment_growth are
   the ones computed from the unrounded elapsed years and expense ratio. *)
C21_NoRoundedInput ==
    (op = "calculate_investment_growth_fixed" /\ ~IsNone(res) /\ req.initial > 0) =>
        /\ res.net_value = UnroundedNet
        /\ res.total_fees = NumSub(res.gross_value, UnroundedNet)
        /\ res.net_return =
               NumMul(NumSub(NpDiv(UnroundedNet, FromInt(req.initial)), Fin(SCALE)),
                      FromInt(100))

-----------------------------------------------------------------------------
(* Properties of the cache of app.py, under SpecApp *)

(* a run that calls load_etf_data *)
Access == op = "idle" /\ op' = "app_top" /\ res'.loaded

Stored(table, stamp) == [kind |-> "entry", value |-> table, stamp |-> stamp]

Recomputed ==
    /\ res'.computed
    /\ res'.etf_data \in GetTopEtfsFixed("None", gw)
    /\ cache' = Stored(res'.etf_data, now)

(* C22: the table is computed on the first access of load_etf_data; an access
   less than 3600 s after the last computation returns the stored table
   without calling get_top_etfs; the first access after the interval has
   elapsed recomputes and stores the new table; nothing else survives a run:
   no other step changes the entry and the session state holds only None. *)
C22_CacheLifecycle ==
    [][ /\ Access =>
            /\ cache = NoEntry => Recomputed
            /\ (cache # NoEntry /\ now - cache.stamp < 3600) =>
                    /\ ~res'.computed
                    /\ res'.etf_data = cache.value
                    /\ cache' = cache
            /\ (cache # NoEntry /\ now - cache.stamp >= 3600) => Recomputed
        /\ ~Access => cache' = cache
        /\ session' \in {NoSession,
                         [kind |-> "state", etf_data |-> None, last_update |-> None]}
        /\ op' = "idle" => (req' = NoRequest /\ res' = None)
      ]_vars

(* the stored table was returned although the market has moved since *)
C22_Witness ==
    /\ op = "app_top"
    /\ res.loaded
    /\ ~res.computed
    /\ res.etf_data = cache.value
    /\ res.etf_data \notin GetTopEtfsFixed("None", gw)
    /\ now > cache.stamp
    /\ session.kind = "state"

(* C28: on the Top Performers page of app.py, after any sequence of country
   selections and runs, the table presented under the heading of the selected
   country holds only ETFs of that country (of all countries when
   "All Countries" is selected). *)
C28_TableOfSelectedCountry ==
    (op = "app_top" /\ res.loaded /\ req.country # "All Countries") =>
        /\ res.heading = req.country
        /\ \A i \in DOMAIN res.etf_data :
              res.etf_data[i].Symbol \in SeqSet(GlobalEtfDatabase(req.country))

-----------------------------------------------------------------------------
(* Properties of the page dispatch of app.py, under SpecCompare *)

(* C27: every section the sidebar of app.py offers is reachable: selecting a
   label makes the dispatch chain enter the branch that renders that section;
   no label falls through the chain to the footer alone. *)
C27_EverySectionRendered ==
    (op = "app" /\ req.page \in AppSections) => res.section # "footer"

-----------------------------------------------------------------------------
(* Properties of the chart series, under SpecChart *)

ChartRows == gw[1].hist.rows

IsChart == op = "create_growth_chart_data" /\ ~IsNone(res)

(* the 0-based indices 0, s, 2s, ... below n *)
StrideIndices(n, s) == {k \in 0..(n - 1) : k % s = 0}

ExpectedStep(n) == IF n \div 60 < 1 THEN 1 ELSE n \div 60

ExpectedIndices(n) ==
    IF n > 60 THEN StrideIndices(n, ExpectedStep(n)) ELSE 0..(n - 1)

(* the 0-based index of the i-th expected observation *)
NthIndex(n, i) ==
    CHOOSE k \in ExpectedIndices(n) :
        Cardinality({j \in ExpectedIndices(n) : j < k}) = i - 1

(* C23: chart resampling is a deterministic stride: for n > 60 observations
   the chart holds exactly the observations at the indices 0, s, 2s, ... with
   s = floor(n / 60), at least 1, in their original order, the first
   observation among them; for n <= 60 it holds every observation. *)
C23_DeterministicStride ==
    IsChart =>
        LET n == Len(ChartRows)
        IN  /\ Len(res.points) = Cardinality(ExpectedIndices(n))
            /\ \A i \in DOMAIN res.points :
                  /\ res.points[i].Date = ChartRows[NthIndex(n, i) + 1].d
                  /\ res.points[i].Gross_Portfolio_Value =
                        NumMul(NpDiv(FromInt(ChartRows[NthIndex(n, i) + 1].p),
                                     FromInt(ChartRows[1].p)),
                               FromInt(req.initial))
            /\ n > 0 => res.points[1].Date = ChartRows[1].d

(* more than 60 observations, the stride 2 and a last observation that is
   not sampled *)
C23_Witness ==
    /\ IsChart
    /\ Len(ChartRows) = 120
    /\ Len(res.points) = 60
    /\ res.points[60].Date = ChartRows[119].d

(* C24: for a price series of any length the growth series of the chart has
   at most max_points = 60 points. *)
C24_AtMostMaxPoints == IsChart => Len(res.points) <= 60

ChartOps == {"create_growth_chart_data", "create_growth_chart_data_again"}

(* C25: building the chart series has no side effect on its input and is
   restartable: the frame given to _create_growth_chart_data is unchanged
   after the call (no added column, no removed row) and the same call made
   again yields the same sequence of points. *)
C25_NoSideEffect ==
    [][ (op' \in ChartOps /\ op' # op) =>
            /\ gw' = gw
            /\ gw'[1].hist.columns = {"Close"}
            /\ op' = "create_growth_chart_data_again" => res'.second = res
      ]_vars

C25_Witness ==
    /\ op = "create_growth_chart_data_again"
    /\ ~IsNone(res.second)
    /\ Len(ChartRows) > 60
    /\ Len(res.second.points) < Len(ChartRows)
    /\ res.second = res.first

-----------------------------------------------------------------------------
(* The chart series of a growth result, under Spec *)

ChartPoints == res.growth_data.points

LastPoint == ChartPoints[Len(ChartPoints)]

(* the expense ratio the chart is built with *)
ChartRatio == IF req.include THEN StatedRatio ELSE 0

(* C26: in every chart series returned with a growth result the first point
   has gross and net portfolio value equal to the principal, every point has
   net <= gross when the expense ratio is in [0, 1), and when the last
   observation is among the sampled points the last point's gross and net
   values equal the result's gross_current_value and net_current_value. *)
C26_ChartAgreesWithResult ==
    (IsGrowth /\ ~IsNone(res.growth_data) /\ First(Hist.rows).p > 0) =>
        /\ NumEq(ChartPoints[1].Gross_Portfolio_Value, FromInt(req.initial))
        /\ NumEq(ChartPoints[1].Portfolio_Value, FromInt(req.initial))
        /\ (0 <= ChartRatio /\ ChartRatio < SCALE) =>
              \A i \in DOMAIN ChartPoints :
                  NumGe(ChartPoints[i].Gross_Portfolio_Value, ChartPoints[i].Portfolio_Value)
        /\ LastPoint.Date = Last(Hist.rows).d =>
              /\ NumEq(LastPoint.Gross_Portfolio_Value, res.gross_current_value)
              /\ NumEq(LastPoint.Portfolio_Value, res.net_current_value)

-----------------------------------------------------------------------------
(* Properties of the reference catalog, under SpecSearch *)

Db == Database(req.analyzer)

(* global_etf_database[country][symbol], "missing" without such an entry *)
NameIn(db, c, sym) ==
    IF c \in Countries(db) /\ HasSymbol(db[EtfsOf(db, c)].etfs, sym)
    THEN LET etfs == db[EtfsOf(db, c)].etfs
         IN  etfs[CHOOSE i \in DOMAIN etfs : etfs[i].symbol = sym].name.text
    ELSE "missing"

CountriesOf(db, sym) == {c \in Countries(db) : HasSymbol(db[EtfsOf(db, c)].etfs, sym)}

(* C29: the reference catalog is consistent under search: each result of
   search_etf_by_country carries a name and a country such that
   global_etf_database[country][symbol] is that name, and every symbol of the
   flattened catalog (get_all_etfs) belongs to exactly one country. *)
C29_CatalogConsistent ==
    /\ op = "search_etf_by_country" =>
          \A i \in DOMAIN res.results :
              NameIn(Db, res.results[i].country, res.results[i].symbol)
                  = res.results[i].name.text
    /\ op = "get_all_etfs" =>
          \A i \in DOMAIN res.etfs :
              Cardinality(CountriesOf(Db, res.etfs[i].symbol)) = 1

-----------------------------------------------------------------------------
(* Properties of calculate_future_value, under SpecFuture *)

(* C30: calculate_future_value returns a result, not an error, for every
   principal > 0, annual_rate >= 0, whole years >= 1 and monthly_contribution
   >= 0; total_invested = principal + monthly_contribution * 12 * years,
   total_gain = future_value - total_invested, and with annual_rate = 0 the
   future value equals total_invested (total_gain = 0). *)
C30_FutureValue ==
    op = "calculate_future_value" =>
        /\ ~IsNone(res)
        /\ res.total_invested =
               FromInt(req.principal + req.monthly_contribution * 12 * req.years)
        /\ NumEq(res.total_gain, NumSub(res.future_value, res.total_invested))
        /\ req.annual_rate = 0 =>
               /\ NumEq(res.future_value, res.total_invested)
               /\ res.total_gain = Fin(0)

====
